---- MODULE Spec2Model ----
(***************************************************************************)
(* A model of the car-assistant backend: the in-memory TTL cache and the   *)
(* upstream adapters of external_apis.py, the VIN profile route of main.py *)
(* and the filter-and-score engine of search.py.                           *)
(*                                                                         *)
(* Python values are tagged records (None, PyInt, PyStr, PyDict, PyList)   *)
(* so that None, 0, "" and {} stay distinct, as they are in the code.      *)
(* time.time() is an integer number of seconds.                            *)
(***************************************************************************)
EXTENDS Integers, Sequences, FiniteSets, TLC

VARIABLES
    _CACHE,            \* external_apis._CACHE: key -> <<ts, value>>
    now,               \* the value time.time() returns
    AUTO_DEV_API_KEY,  \* external_apis.AUTO_DEV_API_KEY (None when unset)
    stored,            \* history: key -> <<at, value>> of the last cache_set
    last,              \* the last completed call: what was asked, what came back
    calls,             \* how many calls have completed
    SAMPLE_LISTINGS,   \* sample_listings.SAMPLE_LISTINGS, the built-in listings
    threads            \* the calls in progress in the server's worker threads

vars == <<_CACHE, now, AUTO_DEV_API_KEY, stored, last, calls, SAMPLE_LISTINGS, threads>>

-----------------------------------------------------------------------------
(* Python values *)

None == [t |-> "None"]
PyInt(n) == [t |-> "int", v |-> n]
PyStr(s) == [t |-> "str", v |-> s]
PyList(s) == [t |-> "list", v |-> s]
PyDict(d) == [t |-> "dict", v |-> d]
\* a float, held in thousandths: PyFloat(8500) is 8.5
PyFloat(m) == [t |-> "float", v |-> m]
EmptyDict == PyDict(<<>>)
EmptyList == PyList(<<>>)

IsNone(x) == x.t = "None"

\* bool(x): None, 0, "", [] and {} are falsy
Truthy(x) ==
    CASE x.t = "None" -> FALSE
      [] x.t = "int" -> x.v # 0
      [] x.t = "float" -> x.v # 0
      [] x.t = "str" -> x.v # ""
      [] x.t = "list" -> Len(x.v) > 0
      [] x.t = "dict" -> DOMAIN x.v # {}
      [] OTHER -> TRUE

\* a or b
PyOr(a, b) == IF Truthy(a) THEN a ELSE b

\* d.get(k): the value under k, None when the key is missing
DictGet(d, k) == IF k \in DOMAIN d.v THEN d.v[k] ELSE None

\* str(x) as an f-string formats it
Format(x) ==
    CASE x.t = "None" -> "None"
      [] x.t = "int" -> ToString(x.v)
      [] x.t = "str" -> x.v
      [] OTHER -> "?"

\* s.lower(), letter by letter
LowerLetters ==
    ("A" :> "a") @@ ("B" :> "b") @@ ("C" :> "c") @@ ("D" :> "d") @@ ("E" :> "e")
    @@ ("F" :> "f") @@ ("G" :> "g") @@ ("H" :> "h") @@ ("I" :> "i") @@ ("J" :> "j")
    @@ ("K" :> "k") @@ ("L" :> "l") @@ ("M" :> "m") @@ ("N" :> "n") @@ ("O" :> "o")
    @@ ("P" :> "p") @@ ("Q" :> "q") @@ ("R" :> "r") @@ ("S" :> "s") @@ ("T" :> "t")
    @@ ("U" :> "u") @@ ("V" :> "v") @@ ("W" :> "w") @@ ("X" :> "x") @@ ("Y" :> "y")
    @@ ("Z" :> "z")

RECURSIVE Lower(_)
Lower(s) ==
    IF s = "" THEN ""
    ELSE LET ch == SubSeq(s, 1, 1) IN
         (IF ch \in DOMAIN LowerLetters THEN LowerLetters[ch] ELSE ch)
             \o Lower(SubSeq(s, 2, Len(s)))

\* sub in s
Contains(sub, s) ==
    \E i \in 1..(Len(s) - Len(sub) + 1) : SubSeq(s, i, i + Len(sub) - 1) = sub

\* s.startswith(prefix)
StartsWith(s, prefix) == Len(s) >= Len(prefix) /\ SubSeq(s, 1, Len(prefix)) = prefix

\* s.strip(), for blanks
RECURSIVE Strip(_)
Strip(s) ==
    IF s = "" THEN ""
    ELSE IF SubSeq(s, 1, 1) = " " THEN Strip(SubSeq(s, 2, Len(s)))
    ELSE IF SubSeq(s, Len(s), Len(s)) = " " THEN Strip(SubSeq(s, 1, Len(s) - 1))
    ELSE s

-----------------------------------------------------------------------------
(* The TTL cache *)

CACHE_TTL == 60 * 60 * 24

NoEntries == [k \in {} |-> <<0, None>>]

\* a read that also drops every other expired entry
cache_get_purge_all(c, t, key) ==
    IF key \notin DOMAIN c
    THEN [ret |-> None, cache |-> c]
    ELSE IF t - c[key][1] > CACHE_TTL
         THEN [ret |-> None,
               cache |-> [k \in {j \in DOMAIN c : t - c[j][1] <= CACHE_TTL} |-> c[k]]]
         ELSE [ret |-> c[key][2], cache |-> c]

\* cache_get(key) on cache c at time t: the value returned and the cache left
cache_get_late(c, t, key) ==
    IF key \notin DOMAIN c
    THEN [ret |-> None, cache |-> c]
    ELSE IF t - c[key][1] >= CACHE_TTL
         THEN [ret |-> None, cache |-> [k \in DOMAIN c \ {key} |-> c[k]]]
         ELSE [ret |-> c[key][2], cache |-> c]

cache_get(c, t, key) ==
    IF key \notin DOMAIN c
    THEN [ret |-> None, cache |-> c]
    ELSE IF t - c[key][1] > CACHE_TTL
         THEN [ret |-> None, cache |-> [k \in DOMAIN c \ {key} |-> c[k]]]
         ELSE [ret |-> c[key][2], cache |-> c]

\* cache_set(key, value) on cache c at time t: the cache left
cache_set(c, t, key, value) ==
    [k \in DOMAIN c \cup {key} |-> IF k = key THEN <<t, value>> ELSE c[k]]

-----------------------------------------------------------------------------
(* Time *)

MaxDays == 1
MaxSkew == 1
Steps == {1, CACHE_TTL}

Tick ==
    /\ \E d \in Steps :
          /\ (now + d) \div CACHE_TTL <= MaxDays
          /\ (now + d) % CACHE_TTL <= MaxSkew
          /\ now' = now + d
    /\ UNCHANGED <<_CACHE, AUTO_DEV_API_KEY, stored, last, calls, SAMPLE_LISTINGS, threads>>

Idle == [fn |-> "none"]

\* no call in progress: the calls of a behaviour run one after another
NoThreads == <<>>

-----------------------------------------------------------------------------
(* Upstream responses.  A response is what requests.get() does: it raises  *)
(* (a transport failure) or returns a status and a body; a body is a JSON  *)
(* value, or Unparsable when resp.json() raises.                           *)

Unparsable == [t |-> "unparsable"]
TransportError == [kind |-> "error"]
Http(status, body) == [kind |-> "http", status |-> status, body |-> body]
\* the choice made when no request is issued
NoRequest == [kind |-> "unused"]

\* resp.raise_for_status(): raises HTTPError for 400..599
RaisesForStatus(resp) == resp.status >= 400 /\ resp.status < 600

\* what a call leaves: the value returned or the exception raised, the
\* cache, and the upstream requests it issued, in order
Returned(value, c, reqs) == [ret |-> value, exc |-> "none", cache |-> c, reqs |-> reqs]
Raised(e, c, reqs) == [ret |-> None, exc |-> e, cache |-> c, reqs |-> reqs]

\* int(s) and float(s) of the strings the upstreams send; float in thousandths
IntStrings ==
    ("0" :> 0) @@ ("3" :> 3) @@ ("4" :> 4) @@ ("5" :> 5) @@ ("158" :> 158)
    @@ ("2019" :> 2019) @@ ("2022" :> 2022)
FloatStrings ==
    ("0" :> 0) @@ ("3" :> 3000) @@ ("4" :> 4000) @@ ("5" :> 5000)
    @@ ("158" :> 158000) @@ ("2019" :> 2019000) @@ ("2022" :> 2022000)
    @@ ("4.0" :> 4000) @@ ("2.0" :> 2000) @@ ("8.5" :> 8500) @@ ("6.2" :> 6200)
    @@ ("7.4" :> 7400) @@ ("-1" :> -1000) @@ ("0.0" :> 0)

\* int(x): [ok, v] or the exception raised
PyIntOf(x) ==
    CASE x.t = "int" -> [exc |-> "none", v |-> x.v]
      [] x.t = "float" -> [exc |-> "none",
                          v |-> IF x.v >= 0 THEN x.v \div 1000 ELSE -((-x.v) \div 1000)]
      [] x.t = "str" -> IF x.v \in DOMAIN IntStrings
                        THEN [exc |-> "none", v |-> IntStrings[x.v]]
                        ELSE [exc |-> "ValueError", v |-> 0]
      [] OTHER -> [exc |-> "TypeError", v |-> 0]

\* float(x): [ok, v] or the exception raised
PyFloatOf(x) ==
    CASE x.t = "int" -> [exc |-> "none", v |-> x.v * 1000]
      [] x.t = "float" -> [exc |-> "none", v |-> x.v]
      [] x.t = "str" -> IF x.v \in DOMAIN FloatStrings
                        THEN [exc |-> "none", v |-> FloatStrings[x.v]]
                        ELSE [exc |-> "ValueError", v |-> 0]
      [] OTHER -> [exc |-> "TypeError", v |-> 0]

-----------------------------------------------------------------------------
(* 1) Auto.dev VIN decode *)

auto_dev_key(vin) == "auto_dev_vin:" \o vin

\* the cache read placed before the credential test
auto_dev_vin_decode_cache_first(c, t, key, vin, resp) ==
    LET cache_key == auto_dev_key(vin)
        got == cache_get(c, t, cache_key)
    IN  IF ~IsNone(got.ret)
        THEN Returned(got.ret, got.cache, <<>>)
        ELSE IF ~Truthy(key)
        THEN Raised("ApiError", got.cache, <<>>)
        ELSE IF resp.kind = "error"
        THEN Raised("ConnectionError", got.cache, <<"auto.dev/vin">>)
        ELSE IF RaisesForStatus(resp)
        THEN Raised("HTTPError", got.cache, <<"auto.dev/vin">>)
        ELSE IF resp.body = Unparsable
        THEN Raised("JSONDecodeError", got.cache, <<"auto.dev/vin">>)
        ELSE Returned(resp.body,
                      cache_set(got.cache, t, cache_key, resp.body),
                      <<"auto.dev/vin">>)

auto_dev_vin_decode(c, t, key, vin, resp) ==
    IF ~Truthy(key)
    THEN Raised("ApiError", c, <<>>)
    ELSE LET cache_key == auto_dev_key(vin)
             got == cache_get(c, t, cache_key)
         IN  IF ~IsNone(got.ret)
             THEN Returned(got.ret, got.cache, <<>>)
             ELSE IF resp.kind = "error"
             THEN Raised("ConnectionError", got.cache, <<"auto.dev/vin">>)
             ELSE IF RaisesForStatus(resp)
             THEN Raised("HTTPError", got.cache, <<"auto.dev/vin">>)
             ELSE IF resp.body = Unparsable
             THEN Raised("JSONDecodeError", got.cache, <<"auto.dev/vin">>)
             ELSE Returned(resp.body,
                           cache_set(got.cache, t, cache_key, resp.body),
                           <<"auto.dev/vin">>)

-----------------------------------------------------------------------------
(* 2) NHTSA vPIC VIN decode *)

nhtsa_key(vin, model_year) ==
    "nhtsa_vin:" \o vin \o ":" \o Format(PyOr(model_year, PyStr("")))

\* an upstream failure stored as an empty record before it is raised
nhtsa_decode_vin_failure_cached(c, t, vin, model_year, resp) ==
    LET cache_key == nhtsa_key(vin, model_year)
        got == cache_get(c, t, cache_key)
    IN  IF ~IsNone(got.ret)
        THEN Returned(got.ret, got.cache, <<>>)
        ELSE IF resp.kind = "error"
        THEN Raised("ConnectionError", cache_set(got.cache, t, cache_key, EmptyDict),
                    <<"vpic">>)
        ELSE IF RaisesForStatus(resp)
        THEN Raised("HTTPError", cache_set(got.cache, t, cache_key, EmptyDict),
                    <<"vpic">>)
        ELSE IF resp.body = Unparsable
        THEN Raised("JSONDecodeError", got.cache, <<"vpic">>)
        ELSE LET results == PyOr(DictGet(resp.body, "Results"), EmptyList)
                 flat == IF Truthy(results) THEN results.v[1] ELSE EmptyDict
             IN  Returned(flat, cache_set(got.cache, t, cache_key, flat), <<"vpic">>)

nhtsa_decode_vin(c, t, vin, model_year, resp) ==
    LET cache_key == nhtsa_key(vin, model_year)
        got == cache_get(c, t, cache_key)
    IN  IF ~IsNone(got.ret)
        THEN Returned(got.ret, got.cache, <<>>)
        ELSE IF resp.kind = "error"
        THEN Raised("ConnectionError", got.cache, <<"vpic">>)
        ELSE IF RaisesForStatus(resp)
        THEN Raised("HTTPError", got.cache, <<"vpic">>)
        ELSE IF resp.body = Unparsable
        THEN Raised("JSONDecodeError", got.cache, <<"vpic">>)
        ELSE LET results == PyOr(DictGet(resp.body, "Results"), EmptyList)
                 flat == IF Truthy(results) THEN results.v[1] ELSE EmptyDict
             IN  Returned(flat, cache_set(got.cache, t, cache_key, flat), <<"vpic">>)

-----------------------------------------------------------------------------
(* 3) CarQuery trims *)

carquery_key(make, model, year) ==
    "carquery_trims:" \o Format(year) \o ":" \o Format(make) \o ":" \o Format(model)

\* a stored value counted as a hit only when it is truthy
carquery_get_trims_truthy_hit(c, t, make, model, year, resp) ==
    LET cache_key == carquery_key(make, model, year)
        got == cache_get(c, t, cache_key)
    IN  IF Truthy(got.ret)
        THEN Returned(got.ret, got.cache, <<>>)
        ELSE IF resp.kind = "error"
        THEN Raised("ConnectionError", got.cache, <<"carquery">>)
        ELSE IF resp.status = 403
        THEN Returned(EmptyList, cache_set(got.cache, t, cache_key, EmptyList),
                      <<"carquery">>)
        ELSE IF RaisesForStatus(resp)
        THEN Returned(EmptyList, cache_set(got.cache, t, cache_key, EmptyList),
                      <<"carquery">>)
        ELSE IF resp.body = Unparsable
        THEN Raised("JSONDecodeError", got.cache, <<"carquery">>)
        ELSE LET trims == PyOr(IF "Trims" \in DOMAIN resp.body.v
                               THEN resp.body.v["Trims"] ELSE EmptyList,
                               EmptyList)
             IN  Returned(trims, cache_set(got.cache, t, cache_key, trims),
                          <<"carquery">>)

carquery_get_trims(c, t, make, model, year, resp) ==
    LET cache_key == carquery_key(make, model, year)
        got == cache_get(c, t, cache_key)
    IN  IF ~IsNone(got.ret)
        THEN Returned(got.ret, got.cache, <<>>)
        ELSE IF resp.kind = "error"
        THEN Raised("ConnectionError", got.cache, <<"carquery">>)
        ELSE IF resp.status = 403
        THEN Returned(EmptyList, cache_set(got.cache, t, cache_key, EmptyList),
                      <<"carquery">>)
        ELSE IF RaisesForStatus(resp)
        THEN Returned(EmptyList, cache_set(got.cache, t, cache_key, EmptyList),
                      <<"carquery">>)
        ELSE IF resp.body = Unparsable
        THEN Raised("JSONDecodeError", got.cache, <<"carquery">>)
        ELSE LET trims == PyOr(IF "Trims" \in DOMAIN resp.body.v
                               THEN resp.body.v["Trims"] ELSE EmptyList,
                               EmptyList)
             IN  Returned(trims, cache_set(got.cache, t, cache_key, trims),
                          <<"carquery">>)

-----------------------------------------------------------------------------
(* 4) Fuel economy helpers *)

_parse_float(value) ==
    IF IsNone(value)
    THEN None
    ELSE LET f == PyFloatOf(value) IN
         IF f.exc = "none" THEN PyFloat(f.v) ELSE None

\* round(235.214 / x, 1), x and the result in thousandths
l_per_100km_to_mpg(l_per_100km) ==
    IF ~Truthy(l_per_100km)
    THEN None
    ELSE LET x == l_per_100km.v
             a == IF x > 0 THEN x ELSE -x
             tenths == (2 * 2352140 + a) \div (2 * a)
         IN  PyFloat(IF x > 0 THEN 100 * tenths ELSE -(100 * tenths))

\* lines 215-237: the economy record made of the trims call r
economy_of_trims(r) ==
    IF r.exc # "none"
    THEN r
    ELSE IF ~Truthy(r.ret)
    THEN Returned(EmptyDict, r.cache, r.reqs)
    ELSE Returned(PyDict(
             [fuel_type |-> DictGet(r.ret.v[1], "model_engine_fuel"),
              city_l_per_100km |-> _parse_float(DictGet(r.ret.v[1], "model_lkm_city")),
              highway_l_per_100km |-> _parse_float(DictGet(r.ret.v[1], "model_lkm_hwy")),
              mixed_l_per_100km |-> _parse_float(DictGet(r.ret.v[1], "model_lkm_mixed")),
              city_mpg |-> l_per_100km_to_mpg(_parse_float(DictGet(r.ret.v[1], "model_lkm_city"))),
              highway_mpg |-> l_per_100km_to_mpg(_parse_float(DictGet(r.ret.v[1], "model_lkm_hwy"))),
              mixed_mpg |-> l_per_100km_to_mpg(_parse_float(DictGet(r.ret.v[1], "model_lkm_mixed"))),
              source |-> PyStr("carquery"),
              trim_used |-> DictGet(r.ret.v[1], "model_trim")]),
             r.cache, r.reqs)

get_economy_from_carquery(c, t, year, make, model, resp) ==
    economy_of_trims(carquery_get_trims(c, t, make, model, year, resp))

-----------------------------------------------------------------------------
(* 7) NHTSA 5-star safety ratings *)

safety_key(year, make, model) ==
    "nhtsa_safety:" \o Format(year) \o ":" \o Format(make) \o ":" \o Format(model)

\* data.get("Results", [])
ResultsOf(data) == IF "Results" \in DOMAIN data.v THEN data.v["Results"] ELSE EmptyList

get_safety_rating(c, t, year, make, model, resp, resp_rating) ==
    LET cache_key == safety_key(year, make, model)
        got == cache_get(c, t, cache_key)
        c1 == got.cache
        one == <<"safety/modelyear">>
        two == <<"safety/modelyear", "safety/VehicleId">>
    IN  IF ~IsNone(got.ret)
        THEN Returned(got.ret, c1, <<>>)
        ELSE IF ~Truthy(year) \/ ~Truthy(make) \/ ~Truthy(model)
        THEN Returned(None, c1, <<>>)
        ELSE IF resp.kind = "error"
        THEN Returned(None, c1, one)
        ELSE IF resp.status # 200
        THEN Returned(None, cache_set(c1, t, cache_key, None), one)
        ELSE IF resp.body = Unparsable
        THEN Returned(None, c1, one)
        ELSE IF ~Truthy(ResultsOf(resp.body))
        THEN Returned(None, cache_set(c1, t, cache_key, None), one)
        ELSE IF ~Truthy(DictGet(ResultsOf(resp.body).v[1], "VehicleId"))
        THEN Returned(None, cache_set(c1, t, cache_key, None), one)
        ELSE IF resp_rating.kind = "error"
        THEN Returned(None, c1, two)
        ELSE IF resp_rating.body = Unparsable
        THEN Returned(None, c1, two)
        ELSE IF ~Truthy(ResultsOf(resp_rating.body))
        THEN Returned(None, cache_set(c1, t, cache_key, None), two)
        ELSE LET first == ResultsOf(resp_rating.body).v[1]
                 overall_str == IF "OverallRating" \in DOMAIN first.v
                                THEN first.v["OverallRating"] ELSE PyStr("")
                 n == PyIntOf(overall_str)
                 rating == IF n.exc = "none" THEN PyInt(n.v) ELSE None
             IN  IF n.exc = "TypeError"
                 THEN Returned(None, c1, two)
                 ELSE Returned(rating, cache_set(c1, t, cache_key, rating), two)

_parse_int(value) ==
    IF ~Truthy(value)
    THEN None
    ELSE LET f == PyFloatOf(value) IN
         IF f.exc = "none" THEN PyInt(PyIntOf(PyFloat(f.v)).v) ELSE None

-----------------------------------------------------------------------------
(* 5) The VIN profile *)

\* [v, exc]: the year of step 3, int(model_year_str) raising on a bad string
resolve_year(vehicle, nhtsa_data) ==
    IF ~IsNone(DictGet(vehicle, "year"))
    THEN [exc |-> "none", v |-> DictGet(vehicle, "year")]
    ELSE LET model_year_str == DictGet(nhtsa_data, "ModelYear") IN
         IF ~Truthy(model_year_str)
         THEN [exc |-> "none", v |-> None]
         ELSE LET n == PyIntOf(model_year_str) IN
              [exc |-> n.exc, v |-> IF n.exc = "none" THEN PyInt(n.v) ELSE None]

\* what each adapter call of one get_car_profile_from_vin ended in
NotCalled == "not called"
Steps4(a, n, e, s) == [primary |-> a, secondary |-> n, economy |-> e, safety |-> s]

\* auto_data.get("vehicle", {}) or {}
vehicle_of(auto_data) ==
    PyOr(IF "vehicle" \in DOMAIN auto_data.v THEN auto_data.v["vehicle"] ELSE EmptyDict,
         EmptyDict)

\* the secondary's make preferred to the primary's
resolve_make_secondary_first(auto_data, nhtsa_data) ==
    PyOr(PyOr(DictGet(nhtsa_data, "Make"), DictGet(vehicle_of(auto_data), "make")),
         DictGet(auto_data, "make"))

resolve_make(auto_data, nhtsa_data) ==
    PyOr(PyOr(DictGet(vehicle_of(auto_data), "make"), DictGet(auto_data, "make")),
         DictGet(nhtsa_data, "Make"))

resolve_model(auto_data, nhtsa_data) ==
    PyOr(PyOr(DictGet(vehicle_of(auto_data), "model"), DictGet(auto_data, "model")),
         DictGet(nhtsa_data, "Model"))

resolve_trim(auto_data, nhtsa_data) ==
    PyOr(DictGet(auto_data, "trim"), DictGet(nhtsa_data, "Trim"))

\* step 5: the profile dict, from the two decodes, the identity, the economy
\* record and the stars
build_profile(vin, auto_data, nhtsa_data, year, make, model, trim, economy, safety_stars) ==
    PyDict([vin |-> PyStr(vin),
            year |-> year,
            make |-> make,
            model |-> model,
            trim |-> trim,
            type |-> DictGet(auto_data, "type"),
            origin |-> DictGet(auto_data, "origin"),
            engine |-> PyDict(
                [displacement_l |-> _parse_float(DictGet(nhtsa_data, "DisplacementL")),
                 cylinders |-> _parse_int(DictGet(nhtsa_data, "EngineCylinders")),
                 hp |-> _parse_int(DictGet(nhtsa_data, "EngineHP")),
                 fuel_type |-> PyOr(DictGet(economy, "fuel_type"),
                                    DictGet(nhtsa_data, "FuelTypePrimary"))]),
            economy |-> PyDict(
                [city_mpg |-> DictGet(economy, "city_mpg"),
                 highway_mpg |-> DictGet(economy, "highway_mpg"),
                 mixed_mpg |-> DictGet(economy, "mixed_mpg"),
                 source |-> DictGet(economy, "source")]),
            safety |-> PyDict(
                [nhtsa_stars |-> safety_stars,
                 source |-> IF Truthy(safety_stars) THEN PyStr("nhtsa") ELSE None])])

\* lines 357-397: after the economy call e, the safety call s and the profile
profile_after_safety(vin, a, n, year, make, model, trim, e, s) ==
    Returned(build_profile(vin, a.ret, n.ret, year, make, model, trim, e.ret, s.ret),
             s.cache, a.reqs \o n.reqs \o e.reqs \o s.reqs)
        @@ [steps |-> Steps4("none", "none", "none", "none")]

\* lines 355-358: the economy call e has returned or raised
profile_after_economy(t, vin, a, n, year, make, model, trim, e, rSafety, rRating) ==
    IF e.exc # "none"
    THEN Raised(e.exc, e.cache, a.reqs \o n.reqs \o e.reqs)
            @@ [steps |-> Steps4("none", "none", e.exc, NotCalled)]
    ELSE profile_after_safety(vin, a, n, year, make, model, trim, e,
             get_safety_rating(e.cache, t, year, make, model, rSafety, rRating))

\* lines 340-355: identity resolved (yr may have raised), then the economy call
profile_after_identity(t, vin, a, n, yr, make, model, trim, rTrims, rSafety, rRating) ==
    IF yr.exc # "none"
    THEN Raised(yr.exc, n.cache, a.reqs \o n.reqs)
            @@ [steps |-> Steps4("none", "none", NotCalled, NotCalled)]
    ELSE profile_after_economy(t, vin, a, n, yr.v, make, model, trim,
             get_economy_from_carquery(n.cache, t, yr.v, make, model, rTrims),
             rSafety, rRating)

\* lines 336-352: the secondary decode n has returned or raised
profile_after_secondary(t, vin, a, n, rTrims, rSafety, rRating) ==
    IF n.exc # "none"
    THEN Raised(n.exc, n.cache, a.reqs \o n.reqs)
            @@ [steps |-> Steps4("none", n.exc, NotCalled, NotCalled)]
    ELSE profile_after_identity(t, vin, a, n,
             resolve_year(vehicle_of(a.ret), n.ret),
             resolve_make(a.ret, n.ret), resolve_model(a.ret, n.ret),
             resolve_trim(a.ret, n.ret), rTrims, rSafety, rRating)

\* the secondary decode run even though the primary has raised
profile_after_primary_secondary_anyway(t, vin, a, rNhtsa, rTrims, rSafety, rRating) ==
    IF a.exc # "none"
    THEN LET n == nhtsa_decode_vin(a.cache, t, vin, None, rNhtsa) IN
         Raised(a.exc, n.cache, a.reqs \o n.reqs)
            @@ [steps |-> Steps4(a.exc, n.exc, NotCalled, NotCalled)]
    ELSE profile_after_secondary(t, vin, a,
             nhtsa_decode_vin(a.cache, t, vin, None, rNhtsa),
             rTrims, rSafety, rRating)

\* lines 333-336: the primary decode a has returned or raised
profile_after_primary(t, vin, a, rNhtsa, rTrims, rSafety, rRating) ==
    IF a.exc # "none"
    THEN a @@ [steps |-> Steps4(a.exc, NotCalled, NotCalled, NotCalled)]
    ELSE profile_after_secondary(t, vin, a,
             nhtsa_decode_vin(a.cache, t, vin, None, rNhtsa),
             rTrims, rSafety, rRating)

get_car_profile_from_vin(c, t, key, vin, rAuto, rNhtsa, rTrims, rSafety, rRating) ==
    profile_after_primary(t, vin, auto_dev_vin_decode(c, t, key, vin, rAuto),
                          rNhtsa, rTrims, rSafety, rRating)

\* main.get_car: the HTTP status the route answers with
get_car_status(r) ==
    IF r.exc = "ApiError" THEN 502
    ELSE IF r.exc # "none" THEN 500
    ELSE IF ~Truthy(r.ret) \/ ~Truthy(DictGet(r.ret, "year")) THEN 404
    ELSE 200

-----------------------------------------------------------------------------
(* SpecCache: the cache on its own, driven through cache_get and cache_set *)

CacheKeys == {"k1", "k2"}
CacheValues == {None, PyInt(5), EmptyList}

InitCache ==
    /\ _CACHE = NoEntries
    /\ now = 0
    /\ AUTO_DEV_API_KEY = None
    /\ stored = NoEntries
    /\ last = Idle
    /\ calls = 0
    /\ SAMPLE_LISTINGS = <<>>
    /\ threads = NoThreads

CacheSetOp ==
    /\ \E k \in CacheKeys, v \in CacheValues :
          /\ _CACHE' = cache_set(_CACHE, now, k, v)
          /\ stored' = [j \in DOMAIN stored \cup {k} |->
                            IF j = k THEN <<now, v>> ELSE stored[j]]
          /\ last' = [fn |-> "cache_set", key |-> k, at |-> now, ret |-> None]
    /\ UNCHANGED <<now, AUTO_DEV_API_KEY, calls, SAMPLE_LISTINGS, threads>>

CacheGetOp ==
    /\ \E k \in CacheKeys :
          LET r == cache_get(_CACHE, now, k) IN
          /\ _CACHE' = r.cache
          /\ last' = [fn |-> "cache_get", key |-> k, at |-> now, ret |-> r.ret]
    /\ UNCHANGED <<now, AUTO_DEV_API_KEY, stored, calls, SAMPLE_LISTINGS, threads>>

NextCache == CacheSetOp \/ CacheGetOp \/ Tick

SpecCache == InitCache /\ [][NextCache]_vars

\* C2: cache_get(key) returns absent (None) when no entry exists for key or
\* when the entry is more than 24h old, and that read removes the expired
\* entry; otherwise, an entry exactly 24h old included, it returns the value
\* last stored by cache_set(key, value) and leaves the entry in place.
C2_CacheGetContract ==
    last.fn = "cache_get" =>
        LET k == last.key IN
        IF k \notin DOMAIN stored
        THEN last.ret = None /\ k \notin DOMAIN _CACHE
        ELSE IF last.at - stored[k][1] > CACHE_TTL
             THEN last.ret = None /\ k \notin DOMAIN _CACHE
             ELSE /\ last.ret = stored[k][2]
                  /\ k \in DOMAIN _CACHE
                  /\ _CACHE[k] = stored[k]

\* a read of an entry exactly 24h old has returned the stored value
C2_Witness ==
    /\ last.fn = "cache_get"
    /\ last.key \in DOMAIN stored
    /\ last.at - stored[last.key][1] = CACHE_TTL
    /\ last.ret = PyInt(5)

\* a read of an entry older than 24h has evicted it
C2_WitnessExpired ==
    /\ last.fn = "cache_get"
    /\ last.key \in DOMAIN stored
    /\ last.at - stored[last.key][1] > CACHE_TTL
    /\ last.key \notin DOMAIN _CACHE

-----------------------------------------------------------------------------
(* Spec: the adapters and the VIN profile route, called one after another  *)
(* (section 5: synchronous request processing), each upstream answering    *)
(* as it pleases.                                                          *)

MaxCalls == 3

Vins == {"1HGFC2F59NH000001"}

AutoFull ==
    PyDict([vehicle |-> PyDict([year |-> PyInt(2022), make |-> PyStr("Honda"),
                                model |-> PyStr("Civic")]),
            trim |-> PyStr("LX"), type |-> PyStr("Passenger Car"),
            origin |-> PyStr("Japan")])
AutoNoYear ==
    PyDict([vehicle |-> PyDict([make |-> PyStr("Honda"), model |-> PyStr("Civic")])])
AutoResponses ==
    {TransportError, Http(500, Unparsable), Http(200, AutoFull), Http(200, AutoNoYear)}

NhtsaFlat ==
    PyDict([ModelYear |-> PyStr("2022"), Make |-> PyStr("Honda"), Model |-> PyStr("Civic"),
            Trim |-> PyStr(""), DisplacementL |-> PyStr("2.0"),
            EngineCylinders |-> PyStr("4.0"), EngineHP |-> PyStr("158"),
            FuelTypePrimary |-> PyStr("Gasoline")])
NhtsaResponses ==
    {TransportError, Http(503, Unparsable), Http(200, Unparsable),
     Http(200, PyDict([Results |-> PyList(<<NhtsaFlat>>)])),
     Http(200, PyDict([Results |-> EmptyList]))}

TrimLX ==
    PyDict([model_trim |-> PyStr("LX"), model_engine_fuel |-> PyStr("Regular Unleaded"),
            model_lkm_city |-> PyStr("7.4"), model_lkm_hwy |-> PyStr("6.2"),
            model_lkm_mixed |-> None])
TrimsResponses ==
    {TransportError, Http(403, Unparsable), Http(500, Unparsable), Http(200, Unparsable),
     Http(200, PyDict([Trims |-> PyList(<<TrimLX>>)]))}

SafetyResponses ==
    {TransportError, Http(404, Unparsable),
     Http(200, PyDict([Results |-> EmptyList])),
     Http(200, PyDict([Results |-> PyList(<<PyDict([VehicleId |-> PyInt(16507)])>>)]))}
RatingResponses ==
    {TransportError,
     Http(200, PyDict([Results |-> PyList(<<PyDict([OverallRating |-> PyStr("5")])>>)])),
     Http(200, PyDict([Results |-> PyList(<<PyDict([OverallRating |-> PyStr("Not Rated")])>>)]))}

\* the (year, make, model) the adapters are called with directly
Identities ==
    {<<PyInt(2022), PyStr("Honda"), PyStr("Civic")>>,
     <<None, PyStr("Honda"), PyStr("Civic")>>}

\* the responses to choose among: S when the call, probed with a transport
\* failure in that place, issues the request to `name`, and no choice otherwise
Opts(probe, name, S) ==
    IF \E i \in DOMAIN probe.reqs : probe.reqs[i] = name THEN S ELSE {NoRequest}

\* the call just made: the entry under its key before it, the responses the
\* upstreams gave it, and what it left
Call(fn, key, r, resps) ==
    [fn |-> fn, key |-> key, at |-> now, ret |-> r.ret, exc |-> r.exc, reqs |-> r.reqs,
     pre |-> IF key \in DOMAIN _CACHE THEN {_CACHE[key]} ELSE {},
     resps |-> resps]

\* the upstream failed: no response, a 4xx/5xx status, or a body that is not JSON
Failed(resp) ==
    \/ resp.kind = "error"
    \/ resp.kind = "http" /\ (RaisesForStatus(resp) \/ resp.body = Unparsable)

Init ==
    /\ _CACHE = NoEntries
    /\ now = 0
    /\ AUTO_DEV_API_KEY \in {None, PyStr("test-key")}
    /\ stored = NoEntries
    /\ last = Idle
    /\ calls = 0
    /\ SAMPLE_LISTINGS = <<>>
    /\ threads = NoThreads

CallAutoDev ==
    /\ calls < MaxCalls
    /\ \E vin \in Vins :
       \E resp \in Opts(auto_dev_vin_decode(_CACHE, now, AUTO_DEV_API_KEY, vin,
                                            TransportError), "auto.dev/vin", AutoResponses) :
          LET r == auto_dev_vin_decode(_CACHE, now, AUTO_DEV_API_KEY, vin, resp) IN
          /\ _CACHE' = r.cache
          /\ last' = Call("auto_dev_vin_decode", auto_dev_key(vin), r, <<resp>>)
    /\ calls' = calls + 1
    /\ UNCHANGED <<now, AUTO_DEV_API_KEY, stored, SAMPLE_LISTINGS, threads>>

CallNhtsa ==
    /\ calls < MaxCalls
    /\ \E vin \in Vins :
       \E resp \in Opts(nhtsa_decode_vin(_CACHE, now, vin, None, TransportError),
                        "vpic", NhtsaResponses) :
          LET r == nhtsa_decode_vin(_CACHE, now, vin, None, resp) IN
          /\ _CACHE' = r.cache
          /\ last' = Call("nhtsa_decode_vin", nhtsa_key(vin, None), r, <<resp>>)
    /\ calls' = calls + 1
    /\ UNCHANGED <<now, AUTO_DEV_API_KEY, stored, SAMPLE_LISTINGS, threads>>

CallCarquery ==
    /\ calls < MaxCalls
    /\ \E id \in Identities :
       \E resp \in Opts(carquery_get_trims(_CACHE, now, id[2], id[3], id[1],
                                           TransportError), "carquery", TrimsResponses) :
          LET r == carquery_get_trims(_CACHE, now, id[2], id[3], id[1], resp) IN
          /\ _CACHE' = r.cache
          /\ last' = Call("carquery_get_trims", carquery_key(id[2], id[3], id[1]), r,
                          <<resp>>)
    /\ calls' = calls + 1
    /\ UNCHANGED <<now, AUTO_DEV_API_KEY, stored, SAMPLE_LISTINGS, threads>>

CallSafety ==
    /\ calls < MaxCalls
    /\ \E id \in Identities :
       \E resp \in Opts(get_safety_rating(_CACHE, now, id[1], id[2], id[3],
                                          TransportError, TransportError),
                        "safety/modelyear", SafetyResponses) :
       \E resp_rating \in Opts(get_safety_rating(_CACHE, now, id[1], id[2], id[3],
                                                 resp, TransportError),
                               "safety/VehicleId", RatingResponses) :
          LET r == get_safety_rating(_CACHE, now, id[1], id[2], id[3], resp, resp_rating) IN
          /\ _CACHE' = r.cache
          /\ last' = Call("get_safety_rating", safety_key(id[1], id[2], id[3]), r,
                          <<resp, resp_rating>>)
    /\ calls' = calls + 1
    /\ UNCHANGED <<now, AUTO_DEV_API_KEY, stored, SAMPLE_LISTINGS, threads>>

MaxRequests == 2

\* one profile request against the present cache, clock and credential
Profile(vin, a, n, e, s, g) ==
    get_car_profile_from_vin(_CACHE, now, AUTO_DEV_API_KEY, vin, a, n, e, s, g)

\* what GET /cars/{vin} leaves as the last call
Answer(vin, r, resps) ==
    Call("get_car", auto_dev_key(vin), r, resps)
        @@ [status |-> get_car_status(r), steps |-> r.steps]

\* GET /cars/{vin}
GetCar ==
    /\ calls < MaxRequests
    /\ \E vin \in Vins :
       \E a \in Opts(Profile(vin, TransportError, TransportError, TransportError,
                             TransportError, TransportError),
                     "auto.dev/vin", AutoResponses) :
       \E n \in Opts(Profile(vin, a, TransportError, TransportError, TransportError,
                             TransportError),
                     "vpic", NhtsaResponses) :
       \E e \in Opts(Profile(vin, a, n, TransportError, TransportError, TransportError),
                     "carquery", TrimsResponses) :
       \E s \in Opts(Profile(vin, a, n, e, TransportError, TransportError),
                     "safety/modelyear", SafetyResponses) :
       \E g \in Opts(Profile(vin, a, n, e, s, TransportError),
                     "safety/VehicleId", RatingResponses) :
          /\ _CACHE' = Profile(vin, a, n, e, s, g).cache
          /\ last' = Answer(vin, Profile(vin, a, n, e, s, g), <<a, n, e, s, g>>)
    /\ calls' = calls + 1
    /\ UNCHANGED <<now, AUTO_DEV_API_KEY, stored, SAMPLE_LISTINGS, threads>>

Next == CallAutoDev \/ CallNhtsa \/ CallCarquery \/ CallSafety \/ Tick

Spec == Init /\ [][Next]_vars

\* the three cached adapters alone, called one after another as time passes
NextAdapters == CallAutoDev \/ CallNhtsa \/ CallCarquery \/ Tick

SpecAdapters == Init /\ [][NextAdapters]_vars

-----------------------------------------------------------------------------
(* SpecProfile: VIN profile requests, one after another *)

NextProfile == GetCar \/ Tick

SpecProfile == Init /\ [][NextProfile]_vars

-----------------------------------------------------------------------------
(* Claims about the adapters (Spec) *)

\* C1: after a safety-rating lookup that ended in None because the upstream
\* returned no results (or a non-200 status, no vehicle id, or a non-numeric
\* rating), a second get_safety_rating call with the same arguments within
\* the 24h TTL returns None without issuing any upstream request.
C1_NoneOutcomeIsServedFromCache ==
    (/\ last.fn = "get_safety_rating"
     /\ \E e \in last.pre : e[2] = None /\ last.at - e[1] <= CACHE_TTL)
    => (last.reqs = <<>> /\ last.ret = None)

\* C3: nhtsa_decode_vin never raises; on a transport failure, a non-2xx
\* response or an unparsable body it returns an empty record.
C3_SecondaryDecodeNeverRaises ==
    last.fn = "nhtsa_decode_vin" =>
        /\ last.exc = "none"
        /\ (Failed(last.resps[1]) => last.ret = EmptyDict)

-----------------------------------------------------------------------------
(* Claims about the VIN profile route (SpecProfile) *)

\* every economy field and the safety fields of a profile are None
EconomyIsNone(profile) ==
    \A f \in {"city_mpg", "highway_mpg", "mixed_mpg", "source"} :
        DictGet(DictGet(profile, "economy"), f) = None
SafetyIsNone(profile) ==
    /\ DictGet(DictGet(profile, "safety"), "nhtsa_stars") = None
    /\ DictGet(DictGet(profile, "safety"), "source") = None

\* C4: in get_car_profile_from_vin, once the primary VIN decode has succeeded,
\* a failure of the trim/economy upstream or of the safety-rating upstream
\* never propagates: the call returns a profile, with the economy fields None
\* when the trims upstream failed and the safety fields None when the safety
\* upstream failed.
C4_OptionalSourcesNeverPropagate ==
    (/\ last.fn = "get_car"
     /\ last.steps.primary = "none"
     /\ (Failed(last.resps[3]) \/ Failed(last.resps[4]) \/ Failed(last.resps[5])))
    => /\ last.exc = "none"
       /\ (Failed(last.resps[3]) => EconomyIsNone(last.ret))
       /\ ((Failed(last.resps[4]) \/ Failed(last.resps[5])) => SafetyIsNone(last.ret))

\* why a profile request ended as it did
Cause ==
    IF last.steps.primary = "ApiError" THEN "Configuration"
    ELSE IF last.steps.primary \in {"ConnectionError", "HTTPError"} THEN "Upstream"
    ELSE IF last.exc # "none" THEN "Other"
    ELSE IF Truthy(DictGet(last.ret, "year")) THEN "Profile"
    ELSE "NotFound"

\* C5: a VIN profile request ends in exactly one of four outcomes, each told
\* from the others by the answer: a profile (year resolved), NotFound (no
\* year resolved), Upstream (the primary VIN decode was unreachable or
\* answered non-2xx) or Configuration (credential missing).
C5_FourDistinguishableOutcomes ==
    last.fn = "get_car" =>
        /\ Cause \in {"Profile", "NotFound", "Upstream", "Configuration"}
        /\ (last.status = 200 <=> Cause = "Profile")
        /\ (last.status = 404 <=> Cause = "NotFound")
        /\ (last.status = 500 <=> Cause = "Upstream")
        /\ (last.status = 502 <=> Cause = "Configuration")

-----------------------------------------------------------------------------
(* search.py: scoring.  A score is a whole number of 1/SCALE: SCALE stands   *)
(* for 1.0, and is chosen so that the scores of the listings and criteria   *)
(* used here are exact.  Prices, budgets, miles and mpg are whole numbers.  *)

SCALE == 7 * 60000

Max(a, b) == IF a >= b THEN a ELSE b
Min(a, b) == IF a <= b THEN a ELSE b

_clamp(x) == Max(0, Min(SCALE, x))

RECURSIVE GCD(_, _)
GCD(a, b) == IF b = 0 THEN a ELSE GCD(b, a % b)

\* a * (b / c), the common factor of b and c cancelled before the product
Ratio(a, b, c) == (a * (b \div GCD(b, c))) \div (c \div GCD(b, c))

\* the under-budget ramp of _price_score without its cap at 70% of the budget
price_score_uncapped(price, budget) ==
    IF IsNone(price) THEN (5 * SCALE) \div 10
    ELSE IF IsNone(budget) THEN (6 * SCALE) \div 10
    ELSE IF price.v <= budget.v
    THEN IF budget.v <= 0
         THEN SCALE
         ELSE (6 * SCALE) \div 10 + Ratio((4 * SCALE) \div 7, price.v, budget.v)
    ELSE (5 * SCALE) \div 100

\* the budget left out of the price sub-score
price_score_no_budget(price, budget) ==
    IF IsNone(price) THEN (5 * SCALE) \div 10 ELSE (6 * SCALE) \div 10

_price_score(price, budget) ==
    IF IsNone(price) THEN (5 * SCALE) \div 10
    ELSE IF IsNone(budget) THEN (6 * SCALE) \div 10
    ELSE IF price.v <= budget.v
    THEN IF 10 * price.v >= 7 * budget.v
         THEN SCALE
         ELSE (6 * SCALE) \div 10 + Ratio((4 * SCALE) \div 7, price.v, budget.v)
    ELSE IF 10 * (price.v - budget.v) <= budget.v
    THEN Ratio((6 * SCALE) \div 10, budget.v - 10 * (price.v - budget.v), budget.v)
    ELSE (5 * SCALE) \div 100

_mileage_score(mileage) ==
    IF IsNone(mileage) THEN (5 * SCALE) \div 10
    ELSE IF mileage.v <= 30000 THEN SCALE
    ELSE IF mileage.v <= 90000
    THEN _clamp(SCALE - (SCALE \div 60000) * (mileage.v - 30000))
    ELSE IF mileage.v <= 120000 THEN (2 * SCALE) \div 10
    ELSE (5 * SCALE) \div 100

_distance_score(distance_miles, max_distance) ==
    LET bound == IF IsNone(max_distance) THEN 100 ELSE max_distance.v IN
    IF IsNone(distance_miles) THEN (5 * SCALE) \div 10
    ELSE IF distance_miles.v <= bound THEN SCALE
    ELSE IF distance_miles.v <= 2 * bound
    THEN _clamp(SCALE - Ratio(SCALE, distance_miles.v - bound, bound))
    ELSE (5 * SCALE) \div 100

\* mpg and weight are kept times ten: 0.6 * city + 0.4 * highway over 0.6 + 0.4
_economy_score(city_mpg, highway_mpg) ==
    IF IsNone(city_mpg) /\ IsNone(highway_mpg) THEN (5 * SCALE) \div 10
    ELSE LET mpg == (IF IsNone(city_mpg) THEN 0 ELSE 6 * city_mpg.v)
                    + (IF IsNone(highway_mpg) THEN 0 ELSE 4 * highway_mpg.v)
             weight == (IF IsNone(city_mpg) THEN 0 ELSE 6)
                       + (IF IsNone(highway_mpg) THEN 0 ELSE 4)
         IN  IF mpg <= 20 * weight THEN (2 * SCALE) \div 10
             ELSE IF mpg >= 35 * weight THEN SCALE
             ELSE (2 * SCALE) \div 10 + (8 * SCALE * (mpg - 20 * weight)) \div (150 * weight)

_safety_score(stars) ==
    IF IsNone(stars) THEN (5 * SCALE) \div 10
    ELSE _clamp((SCALE * stars.v) \div 5)

\* ScoreBreakdown.total, in 1/(100 * SCALE)
total(bd) ==
    30 * bd.price + 25 * bd.mileage + 15 * bd.distance + 20 * bd.economy + 10 * bd.safety

score_listing(listing, criteria) ==
    [listing |-> listing,
     breakdown |->
        [price |-> _price_score(DictGet(listing, "price"), criteria.budget),
         mileage |-> _mileage_score(DictGet(listing, "mileage")),
         distance |-> _distance_score(DictGet(listing, "distance_miles"),
                                      criteria.max_distance),
         economy |-> _economy_score(DictGet(listing, "city_mpg"),
                                    DictGet(listing, "highway_mpg")),
         safety |-> _safety_score(DictGet(listing, "safety_rating"))]]

total_score(s) == total(s.breakdown)

-----------------------------------------------------------------------------
(* search.py: filtering *)

\* (listing.get(field) or "").lower()
LowerField(listing, field) == Lower(PyOr(DictGet(listing, field), PyStr("")).v)

make_ok(listing, criteria) ==
    Truthy(criteria.make) => Contains(criteria.make.v, LowerField(listing, "make"))

budget_ok(listing, criteria) ==
    ~IsNone(criteria.budget) =>
        /\ ~IsNone(DictGet(listing, "price"))
        /\ ~(100 * DictGet(listing, "price").v > 115 * criteria.budget.v)

body_style_ok(listing, criteria) ==
    Truthy(criteria.body_style) =>
        LET body_style == LowerField(listing, "body_style")
            criteria_style == Lower(criteria.body_style.v)
        IN  IF StartsWith(criteria_style, "not ")
            THEN ~Contains(Strip(SubSeq(criteria_style, 5, Len(criteria_style))), body_style)
            ELSE Contains(criteria_style, body_style)

fuel_type_ok(listing, criteria) ==
    Truthy(criteria.fuel_type) =>
        Contains(Lower(criteria.fuel_type.v), LowerField(listing, "fuel_type"))

max_distance_ok(listing, criteria) ==
    ~IsNone(criteria.max_distance) =>
        ~(/\ ~IsNone(DictGet(listing, "distance_miles"))
          /\ 10 * DictGet(listing, "distance_miles").v > 15 * criteria.max_distance.v)

_passes_filters(listing, criteria) ==
    /\ make_ok(listing, criteria)
    /\ budget_ok(listing, criteria)
    /\ body_style_ok(listing, criteria)
    /\ fuel_type_ok(listing, criteria)
    /\ max_distance_ok(listing, criteria)

-----------------------------------------------------------------------------
(* external_apis.py: the listings fetcher *)

_map_auto_dev_listing_to_schema(item) ==
    LET vehicle == PyOr(IF "vehicle" \in DOMAIN item.v THEN item.v["vehicle"]
                        ELSE EmptyDict, EmptyDict)
        retail == PyOr(IF "retailListing" \in DOMAIN item.v THEN item.v["retailListing"]
                       ELSE EmptyDict, EmptyDict)
    IN  PyDict([id |-> PyOr(DictGet(item, "id"), PyStr(Format(DictGet(item, "vin")))),
                year |-> DictGet(vehicle, "year"),
                make |-> DictGet(vehicle, "make"),
                model |-> DictGet(vehicle, "model"),
                trim |-> PyOr(DictGet(item, "trim"), DictGet(vehicle, "trim")),
                price |-> DictGet(retail, "price"),
                mileage |-> DictGet(retail, "miles"),
                distance_miles |-> DictGet(item, "distance"),
                fuel_type |-> DictGet(vehicle, "fuel"),
                body_style |-> DictGet(vehicle, "bodyStyle"),
                city_mpg |-> DictGet(vehicle, "cityMpg"),
                highway_mpg |-> DictGet(vehicle, "highwayMpg"),
                safety_rating |-> None,
                source |-> PyStr("auto.dev")])

\* every raw record mapped and kept, complete or not
RECURSIVE clean_listings_unchecked(_)
clean_listings_unchecked(raw_listings) ==
    IF raw_listings = <<>> THEN <<>>
    ELSE <<_map_auto_dev_listing_to_schema(Head(raw_listings))>>
             \o clean_listings_unchecked(Tail(raw_listings))

\* lines 492-506: map each raw record, keep those with year, make and model
RECURSIVE clean_listings(_)
clean_listings(raw_listings) ==
    IF raw_listings = <<>> THEN <<>>
    ELSE LET clean == _map_auto_dev_listing_to_schema(Head(raw_listings)) IN
         (IF /\ Truthy(DictGet(clean, "year"))
             /\ Truthy(DictGet(clean, "make"))
             /\ Truthy(DictGet(clean, "model"))
          THEN <<clean>> ELSE <<>>)
             \o clean_listings(Tail(raw_listings))

fetch_active_listings(key, resp) ==
    IF ~Truthy(key) THEN <<>>
    ELSE IF resp.kind = "error" THEN <<>>
    ELSE IF resp.status # 200 THEN <<>>
    ELSE IF resp.body = Unparsable THEN <<>>
    ELSE clean_listings((IF "data" \in DOMAIN resp.body.v
                         THEN resp.body.v["data"] ELSE EmptyList).v)

-----------------------------------------------------------------------------
(* search.py: the pipeline *)

\* id(item): one number per dict object; the i-th object of the merged list
ObjectId(i) == 140000000 + 64 * i

\* str(item.get("id") or item.get("vin") or id(item))
dedupe_key(item, i) ==
    Format(PyOr(PyOr(DictGet(item, "id"), DictGet(item, "vin")), PyInt(ObjectId(i))))

\* the last record of a key kept instead of the first
RECURSIVE unique_from_last(_, _, _)
unique_from_last(merged_candidates, i, seen) ==
    IF i > Len(merged_candidates) THEN <<>>
    ELSE LET key == dedupe_key(merged_candidates[i], i) IN
         IF \E k \in (i + 1)..Len(merged_candidates) :
                dedupe_key(merged_candidates[k], k) = key
         THEN unique_from_last(merged_candidates, i + 1, seen)
         ELSE <<[item |-> merged_candidates[i], idx |-> i]>>
                  \o unique_from_last(merged_candidates, i + 1, seen)

\* lines 212-219, from the i-th item on: [item, idx], idx the place in the merged list
RECURSIVE unique_from(_, _, _)
unique_from(merged_candidates, i, seen) ==
    IF i > Len(merged_candidates) THEN <<>>
    ELSE LET key == dedupe_key(merged_candidates[i], i) IN
         IF key \in seen
         THEN unique_from(merged_candidates, i + 1, seen)
         ELSE <<[item |-> merged_candidates[i], idx |-> i]>>
                  \o unique_from(merged_candidates, i + 1, seen \cup {key})

unique_candidates(merged_candidates) == unique_from(merged_candidates, 1, {})

\* lines 222-226: the candidates that pass the filters, scored, each with the
\* place its listing has among the unique candidates
RECURSIVE scored_from(_, _, _)
scored_from(unique, i, criteria) ==
    IF i > Len(unique) THEN <<>>
    ELSE (IF _passes_filters(unique[i].item, criteria)
          THEN <<score_listing(unique[i].item, criteria) @@ [pos |-> i]>>
          ELSE <<>>)
             \o scored_from(unique, i + 1, criteria)

\* s put before the elements of equal total: a sort that is not stable
insert_before_equals(sorted, s) ==
    LET n == Cardinality({i \in DOMAIN sorted : total_score(sorted[i]) > total_score(s)})
    IN  SubSeq(sorted, 1, n) \o <<s>> \o SubSeq(sorted, n + 1, Len(sorted))

\* where s goes in the sorted list: after every element whose total is not less
insert_sorted(sorted, s) ==
    LET n == Cardinality({i \in DOMAIN sorted : total_score(sorted[i]) >= total_score(s)})
    IN  SubSeq(sorted, 1, n) \o <<s>> \o SubSeq(sorted, n + 1, Len(sorted))

\* scored.sort(key=total_score, reverse=True): descending and stable
RECURSIVE sort_desc(_, _)
\* the scored list left in pool order
sort_as_given(scored, done) == scored

sort_desc(scored, done) ==
    IF scored = <<>> THEN done
    ELSE sort_desc(Tail(scored), insert_sorted(done, Head(scored)))

\* the whole list, whatever top_k
slice_all(scored, top_k) == scored

\* scored[:top_k]
slice_to(scored, top_k) ==
    IF top_k >= 0
    THEN SubSeq(scored, 1, Min(top_k, Len(scored)))
    ELSE SubSeq(scored, 1, Max(Len(scored) + top_k, 0))

search(key, samples, criteria, top_k, resp) ==
    LET candidates == fetch_active_listings(key, resp)
        merged_candidates == candidates \o samples
        unique == unique_candidates(merged_candidates)
        scored == sort_desc(scored_from(unique, 1, criteria), <<>>)
    IN  [unique |-> unique, ret |-> slice_to(scored, top_k)]

-----------------------------------------------------------------------------
(* The listings and criteria the search is driven with *)

Listing(id, vin, make, model, price, mileage, distance, body, fuel, city, hwy, stars) ==
    PyDict([id |-> id, vin |-> vin, year |-> PyInt(2020), make |-> PyStr(make),
            model |-> PyStr(model), trim |-> None, price |-> price, mileage |-> mileage,
            distance_miles |-> distance, fuel_type |-> PyStr(fuel),
            body_style |-> PyStr(body), city_mpg |-> city, highway_mpg |-> hwy,
            safety_rating |-> stars, source |-> PyStr("sample")])

SampleRav4 ==
    Listing(PyStr("s1"), None, "Toyota", "RAV4", PyInt(18000), PyInt(40000), PyInt(30),
            "SUV", "Gasoline", PyInt(28), PyInt(34), PyInt(4))
\* the same car under another id: the same total
SampleRav4Twin ==
    Listing(PyStr("s2"), None, "Toyota", "RAV4", PyInt(18000), PyInt(40000), PyInt(30),
            "SUV", "Gasoline", PyInt(28), PyInt(34), PyInt(4))
\* no id, no price, no distance, no mpg, no stars
SampleCivic ==
    Listing(None, PyStr("2HGFC2F59NH000002"), "Honda", "Civic", None, PyInt(95000), None,
            "Sedan", "Hybrid", None, None, None)
SampleF150 ==
    Listing(PyStr("s3"), None, "Ford", "F-150", PyInt(24000), PyInt(130000), PyInt(180),
            "Truck", "Diesel", PyInt(15), PyInt(20), PyInt(5))
Samples == {SampleRav4, SampleRav4Twin, SampleCivic, SampleF150}

RawCamry ==
    PyDict([id |-> PyStr("a1"), vin |-> PyStr("4T1G11AK0MU000003"),
            vehicle |-> PyDict([year |-> PyInt(2021), make |-> PyStr("Toyota"),
                                model |-> PyStr("Camry"), bodyStyle |-> PyStr("Sedan"),
                                fuel |-> PyStr("Gasoline")]),
            retailListing |-> PyDict([price |-> PyInt(21000), miles |-> PyInt(60000)])])
\* the id of SampleRav4
RawRav4 ==
    PyDict([id |-> PyStr("s1"),
            vehicle |-> PyDict([year |-> PyInt(2019), make |-> PyStr("toyota"),
                                model |-> PyStr("RAV4"), bodyStyle |-> PyStr("SUV"),
                                fuel |-> PyStr("Gasoline")]),
            retailListing |-> PyDict([price |-> PyInt(12000), miles |-> PyInt(20000)]),
            distance |-> PyInt(160)])
\* no model
RawNoModel ==
    PyDict([id |-> PyStr("a2"),
            vehicle |-> PyDict([year |-> PyInt(2018), make |-> PyStr("Kia")]),
            retailListing |-> PyDict([price |-> PyInt(9000), miles |-> PyInt(80000)])])
Raws == {RawCamry, RawRav4, RawNoModel}

Criteria(budget, max_distance, body_style, fuel_type, make) ==
    [budget |-> budget, max_distance |-> max_distance, body_style |-> body_style,
     fuel_type |-> fuel_type, make |-> make]

NoCriteria == Criteria(None, None, None, None, None)
CriteriaSet ==
    {NoCriteria,
     Criteria(PyInt(20000), None, None, None, None),
     Criteria(None, None, None, None, PyStr("Toyota")),
     Criteria(None, None, None, None, PyStr("toyota")),
     Criteria(PyInt(20000), PyInt(100), PyStr("suv"), None, None),
     Criteria(None, PyInt(100), PyStr("not SUV"), PyStr("gas"), None)}

\* the sequences over S of length at most n
RECURSIVE SeqsUpTo(_, _)
SeqsUpTo(S, n) ==
    IF n = 0 THEN {<<>>}
    ELSE LET shorter == SeqsUpTo(S, n - 1) IN
         shorter \cup {Append(s, x) : s \in {q \in shorter : Len(q) = n - 1}, x \in S}

MaxSamples == 2
MaxFetched == 2
MaxTopK == 3

ListingsResponses ==
    {TransportError, Http(500, Unparsable)}
        \cup {Http(200, PyDict([data |-> PyList(raw)])) : raw \in SeqsUpTo(Raws, MaxFetched)}

-----------------------------------------------------------------------------
(* SpecSearch: search(criteria, top_k) over what the listings upstream     *)
(* returns and the sample listings                                         *)

InitSearch ==
    /\ _CACHE = NoEntries
    /\ now = 0
    /\ AUTO_DEV_API_KEY \in {None, PyStr("test-key")}
    /\ stored = NoEntries
    /\ last = Idle
    /\ calls = 0
    /\ SAMPLE_LISTINGS \in SeqsUpTo(Samples, MaxSamples)
    /\ threads = NoThreads

\* search keeps nothing between two calls (no cache, no module state written):
\* a behaviour is one call
Search ==
    /\ last = Idle
    /\ \E criteria \in CriteriaSet, top_k \in 1..MaxTopK,
          resp \in (IF Truthy(AUTO_DEV_API_KEY) THEN ListingsResponses ELSE {NoRequest}) :
          LET r == search(AUTO_DEV_API_KEY, SAMPLE_LISTINGS, criteria, top_k, resp) IN
          last' = [fn |-> "search", criteria |-> criteria, top_k |-> top_k,
                   resp |-> resp, unique |-> r.unique, ret |-> r.ret]
    /\ UNCHANGED <<_CACHE, now, AUTO_DEV_API_KEY, stored, calls, SAMPLE_LISTINGS, threads>>

NextSearch == Search

SpecSearch == InitSearch /\ [][NextSearch]_vars

-----------------------------------------------------------------------------
(* SpecScore: the filter and the sub-scores, applied to drawn arguments *)

\* every listing a pool can hold
Listings == Samples \cup {_map_auto_dev_listing_to_schema(raw) : raw \in Raws}

Mileages ==
    {None} \cup {PyInt(m) : m \in {0, 30000, 30001, 60000, 78000, 89999, 90000, 90001,
                                   120000, 120001, 150000}}

PassesFilters ==
    /\ \E listing \in Listings, criteria \in CriteriaSet :
          last' = [fn |-> "_passes_filters", listing |-> listing, criteria |-> criteria,
                   ret |-> _passes_filters(listing, criteria)]
    /\ UNCHANGED <<_CACHE, now, AUTO_DEV_API_KEY, stored, calls, SAMPLE_LISTINGS, threads>>

MileageScore ==
    /\ \E a \in Mileages, b \in Mileages :
          last' = [fn |-> "_mileage_score", a |-> a, b |-> b,
                   score_a |-> _mileage_score(a), score_b |-> _mileage_score(b)]
    /\ UNCHANGED <<_CACHE, now, AUTO_DEV_API_KEY, stored, calls, SAMPLE_LISTINGS, threads>>

Prices ==
    {None} \cup {PyInt(p) : p \in {0, 5000, 12000, 14000, 18000, 20000, 21000, 22000,
                                    23000, 24000, 27500, 28000, 31000}}

\* the budgets a request can carry: None, or a positive amount
Budgets == {None, PyInt(20000), PyInt(25000)}

PriceScore ==
    /\ \E price \in Prices, budget \in Budgets :
          last' = [fn |-> "_price_score", price |-> price, budget |-> budget,
                   ret |-> _price_score(price, budget)]
    /\ UNCHANGED <<_CACHE, now, AUTO_DEV_API_KEY, stored, calls, SAMPLE_LISTINGS, threads>>

\* litres per 100 km, in thousandths: what _parse_float makes of the upstream's
\* model_lkm_* strings
Litres == {None} \cup {PyFloat(x) : x \in {0, -8500, -1000, 2000, 6200, 7400, 8500, 23521}}

Convert ==
    /\ \E x \in Litres :
          last' = [fn |-> "l_per_100km_to_mpg", x |-> x, ret |-> l_per_100km_to_mpg(x)]
    /\ UNCHANGED <<_CACHE, now, AUTO_DEV_API_KEY, stored, calls, SAMPLE_LISTINGS, threads>>

\* the distances a listing can carry and the maxDistance a request can carry
Miles == {None} \cup {PyInt(d) : d \in {0, 50, 100, 101, 150, 196, 200, 201, 300}}
DistanceBounds == {None, PyInt(50), PyInt(100)}

DistanceScore ==
    /\ \E a \in Miles, b \in Miles, m \in DistanceBounds :
          last' = [fn |-> "_distance_score", a |-> a, b |-> b, max_distance |-> m,
                   score_a |-> _distance_score(a, m), score_b |-> _distance_score(b, m)]
    /\ UNCHANGED <<_CACHE, now, AUTO_DEV_API_KEY, stored, calls, SAMPLE_LISTINGS, threads>>

NextScore == PassesFilters \/ MileageScore \/ PriceScore \/ Convert \/ DistanceScore

SpecScore == InitCache /\ [][NextScore]_vars

-----------------------------------------------------------------------------
(* Claims about the filter and the scores (SpecScore) *)

\* C6: with a budget given, _passes_filters excludes a candidate on budget
\* grounds only if its price is known and price > 1.15 x budget; a candidate
\* whose price is unknown is not excluded on budget grounds.
C6_BudgetExcludesOnlyKnownOverage ==
    (/\ last.fn = "_passes_filters"
     /\ ~IsNone(last.criteria.budget)
     /\ ~last.ret
     /\ _passes_filters(last.listing, [last.criteria EXCEPT !.budget = None]))
    => /\ ~IsNone(DictGet(last.listing, "price"))
       /\ 100 * DictGet(last.listing, "price").v > 115 * last.criteria.budget.v

\* C7: the make filter is case-insensitive substring containment: a listing
\* passes it exactly when the lower-cased criterion is a substring of the
\* lower-cased listing make.
C7_MakeFilterIgnoresCase ==
    (/\ last.fn = "_passes_filters"
     /\ Truthy(last.criteria.make)
     /\ [last.criteria EXCEPT !.make = None] = NoCriteria)
    => (last.ret <=> Contains(Lower(last.criteria.make.v),
                              LowerField(last.listing, "make")))

\* C10: _mileage_score is monotonically non-increasing in mileage: for known
\* mileages a <= b, _mileage_score(a) >= _mileage_score(b).
C10_MileageScoreMonotone ==
    (/\ last.fn = "_mileage_score"
     /\ ~IsNone(last.a) /\ ~IsNone(last.b)
     /\ last.a.v <= last.b.v)
    => last.score_a >= last.score_b

-----------------------------------------------------------------------------
(* Claims about search (SpecSearch) *)

C9_SortedDescendingAndStable ==
    last.fn = "search" =>
        \A i, j \in DOMAIN last.ret :
            i < j =>
                /\ total_score(last.ret[i]) >= total_score(last.ret[j])
                /\ (total_score(last.ret[i]) = total_score(last.ret[j])
                       => last.ret[i].pos < last.ret[j].pos)

\* two listings of equal total came back, after one of a greater total that
\* stood behind them in the pool
C9_Witness ==
    /\ last.fn = "search"
    /\ \E i, j \in DOMAIN last.ret :
          /\ i < j
          /\ total_score(last.ret[i]) = total_score(last.ret[j])
          /\ last.ret[i].listing # last.ret[j].listing
    /\ \E i, j \in DOMAIN last.ret :
          /\ i < j
          /\ total_score(last.ret[i]) > total_score(last.ret[j])
          /\ last.ret[i].pos > last.ret[j].pos

-----------------------------------------------------------------------------
(* Claims about the sub-scores (SpecScore) *)

\* C11: the price sub-score is never exactly zero: for every known price and
\* every budget > 0, _price_score(price, budget) > 0, and a price above the
\* budget scores at least the floor 0.05.
C11_PriceScoreNeverZero ==
    (/\ last.fn = "_price_score"
     /\ ~IsNone(last.price)
     /\ ~IsNone(last.budget) /\ last.budget.v > 0)
    => /\ last.ret > 0
       /\ (last.price.v > last.budget.v => 20 * last.ret >= SCALE)

-----------------------------------------------------------------------------
(* SpecListing: score_listing applied to one listing and one criteria.     *)
(* The listings are the spec's reference SUV (28 city / 34 highway mpg,    *)
(* 4 stars, 40,000 miles, 30 miles away) with one attribute varied, and    *)
(* the listings of the pools.  Amounts are never negative.                 *)

Reference(price, mileage, distance, city, hwy, stars) ==
    Listing(PyStr("r1"), None, "Toyota", "RAV4", price, mileage, distance,
            "SUV", "Gasoline", city, hwy, stars)

WithPrice(price) ==
    Reference(price, PyInt(40000), PyInt(30), PyInt(28), PyInt(34), PyInt(4))

Distances == {None} \cup {PyInt(d) : d \in {0, 30, 50, 75, 100, 101, 150, 200, 201}}
MpgPairs ==
    {<<None, None>>, <<PyInt(28), None>>, <<None, PyInt(34)>>, <<PyInt(0), PyInt(0)>>,
     <<PyInt(15), PyInt(20)>>, <<PyInt(20), PyInt(20)>>, <<PyInt(28), PyInt(34)>>,
     <<PyInt(35), PyInt(35)>>, <<PyInt(50), PyInt(60)>>}
Stars == {None} \cup {PyInt(s) : s \in 0..5}

ScoredListings ==
    Listings
        \cup {WithPrice(p) : p \in Prices}
        \cup {Reference(PyInt(22000), m, PyInt(30), PyInt(28), PyInt(34), PyInt(4)) :
                  m \in Mileages}
        \cup {Reference(PyInt(18000), PyInt(40000), d, PyInt(28), PyInt(34), PyInt(4)) :
                  d \in Distances}
        \cup {Reference(PyInt(18000), PyInt(40000), PyInt(30), mpg[1], mpg[2], PyInt(4)) :
                  mpg \in MpgPairs}
        \cup {Reference(PyInt(18000), PyInt(40000), PyInt(30), PyInt(28), PyInt(34), s) :
                  s \in Stars}

\* /search takes any integer budget and any max_distance (schemas.py)
ScoredCriteria ==
    {Criteria(b, d, PyStr("suv"), None, None) :
        b \in Budgets \cup {PyInt(0), PyInt(-20000)},
        d \in {None, PyInt(0), PyInt(50), PyInt(100)}}

\* score_listing keeps nothing between two calls: a behaviour is one call
ScoreListing ==
    /\ last = Idle
    /\ \E listing \in ScoredListings, criteria \in ScoredCriteria :
          last' = [fn |-> "score_listing", listing |-> listing, criteria |-> criteria,
                   ret |-> score_listing(listing, criteria)]
    /\ UNCHANGED <<_CACHE, now, AUTO_DEV_API_KEY, stored, calls, SAMPLE_LISTINGS, threads>>

NextListing == ScoreListing

SpecListing == InitCache /\ [][NextListing]_vars

-----------------------------------------------------------------------------
(* Claims about the candidate pool (SpecSearch) *)

merged_of_last ==
    fetch_active_listings(AUTO_DEV_API_KEY, last.resp) \o SAMPLE_LISTINGS

\* C14: deduplication is keyed by id, or by vin for a record without id, and
\* the first occurrence wins: the records of the merged list that share an
\* id contribute one candidate, the first of them; and it happens before
\* filtering: every listing scored is a candidate that survived deduplication.
C14_FirstOccurrenceWinsBeforeFiltering ==
    last.fn = "search" =>
        /\ \A k \in DOMAIN merged_of_last :
              Truthy(PyOr(DictGet(merged_of_last[k], "id"),
                          DictGet(merged_of_last[k], "vin"))) =>
                  LET same == {i \in DOMAIN last.unique :
                                  PyOr(DictGet(last.unique[i].item, "id"),
                                       DictGet(last.unique[i].item, "vin"))
                                      = PyOr(DictGet(merged_of_last[k], "id"),
                                             DictGet(merged_of_last[k], "vin"))}
                  IN  /\ Cardinality(same) = 1
                      /\ \A i \in same :
                            /\ last.unique[i].idx <= k
                            /\ last.unique[i].item = merged_of_last[last.unique[i].idx]
        /\ \A j \in DOMAIN last.ret :
              /\ last.ret[j].pos \in DOMAIN last.unique
              /\ last.ret[j].listing = last.unique[last.ret[j].pos].item

\* two different records share an id, the first of them fails the filters and
\* the second would pass them: neither is scored
C14_Witness ==
    /\ last.fn = "search"
    /\ \E k1, k2 \in DOMAIN merged_of_last :
          /\ k1 < k2
          /\ merged_of_last[k1] # merged_of_last[k2]
          /\ Truthy(DictGet(merged_of_last[k1], "id"))
          /\ DictGet(merged_of_last[k1], "id") = DictGet(merged_of_last[k2], "id")
          /\ \A k \in 1..(k1 - 1) :
                DictGet(merged_of_last[k], "id") # DictGet(merged_of_last[k1], "id")
          /\ ~_passes_filters(merged_of_last[k1], last.criteria)
          /\ _passes_filters(merged_of_last[k2], last.criteria)
          /\ \A j \in DOMAIN last.ret :
                DictGet(last.ret[j].listing, "id") # DictGet(merged_of_last[k1], "id")

-----------------------------------------------------------------------------
(* Claims about the unit conversion (SpecScore) *)

\* C15: l_per_100km_to_mpg(x) returns None for x = None and for every x <= 0,
\* zero and negative alike; for x > 0 it returns a positive value.
C15_NoMpgForNonPositiveLitres ==
    last.fn = "l_per_100km_to_mpg" =>
        IF IsNone(last.x) \/ last.x.v <= 0
        THEN last.ret = None
        ELSE ~IsNone(last.ret) /\ last.ret.v > 0

-----------------------------------------------------------------------------
(* SpecIdentity: one VIN profile request against an empty cache, over what *)
(* the two VIN decodes can say about year, make, model and trim            *)

\* a key the upstream left out
Absent == [t |-> "absent"]
\* the dict of the fields of rec that are not Absent
Only(rec) == PyDict([k \in {f \in DOMAIN rec : rec[f] # Absent} |-> rec[k]])

\* the primary's nested vehicle object
IdentityVehicles ==
    {Absent, None}
        \cup {Only([year |-> y, make |-> mm[1], model |-> mm[2]]) :
                 y \in {Absent, None, PyInt(2020)},
                 mm \in {<<Absent, Absent>>, <<PyStr("Honda"), PyStr("Civic")>>}}

\* the primary's answer: the nested object, the top-level make, model and trim
IdentityAuto ==
    {Only([vehicle |-> v, make |-> mm[1], model |-> mm[2], trim |-> tr]) :
        v \in IdentityVehicles,
        mm \in {<<Absent, Absent>>, <<PyStr("HONDA"), PyStr("CIVIC SI")>>},
        tr \in {Absent, PyStr("EX")}}

\* the secondary's flat record
IdentityNhtsa ==
    {Only([ModelYear |-> my, Make |-> mm[1], Model |-> mm[2], Trim |-> tr]) :
        my \in {Absent, None, PyStr(""), PyStr("2019"), PyStr("20X9")},
        mm \in {<<PyStr(""), PyStr("")>>, <<PyStr("ACURA"), PyStr("Integra")>>},
        tr \in {PyStr(""), PyStr("Touring")}}

IdentityNhtsaResponses ==
    {Http(200, PyDict([Results |-> EmptyList]))}
        \cup {Http(200, PyDict([Results |-> PyList(<<flat>>)])) : flat \in IdentityNhtsa}

\* the trims and safety upstreams answer; they do not fail here
IdentityTrims == {Http(403, Unparsable), Http(200, PyDict([Trims |-> PyList(<<TrimLX>>)]))}
IdentitySafety ==
    {Http(200, PyDict([Results |-> PyList(<<PyDict([VehicleId |-> PyInt(16507)])>>)]))}
IdentityRating ==
    {Http(200, PyDict([Results |-> PyList(<<PyDict([OverallRating |-> PyStr(s)])>>)])) :
        s \in {"5", "0", "Not Rated"}}

\* the request keeps nothing but the cache: a behaviour is one request
Reconcile ==
    /\ last = Idle
    /\ \E vin \in Vins, body \in IdentityAuto, n \in IdentityNhtsaResponses :
       \E e \in Opts(Profile(vin, Http(200, body), n, TransportError, TransportError,
                             TransportError),
                     "carquery", IdentityTrims) :
       \E s \in Opts(Profile(vin, Http(200, body), n, e, TransportError, TransportError),
                     "safety/modelyear", IdentitySafety) :
       \E g \in Opts(Profile(vin, Http(200, body), n, e, s, TransportError),
                     "safety/VehicleId", IdentityRating) :
          /\ _CACHE' = Profile(vin, Http(200, body), n, e, s, g).cache
          /\ last' = Answer(vin, Profile(vin, Http(200, body), n, e, s, g),
                            <<Http(200, body), n, e, s, g>>)
                        @@ [auto_data |-> body,
                            nhtsa_data |-> nhtsa_decode_vin(NoEntries, now, vin, None, n).ret]
    /\ UNCHANGED <<now, AUTO_DEV_API_KEY, stored, calls, SAMPLE_LISTINGS, threads>>

NextIdentity == Reconcile

SpecIdentity == Init /\ [][NextIdentity]_vars

-----------------------------------------------------------------------------
(* Claims about identity resolution (SpecIdentity) *)

\* C16: identity resolution follows fixed source precedence: year is the
\* primary's nested vehicle year whenever it is present, else the secondary's
\* ModelYear; make and model are the primary's nested value, else the
\* primary's top-level value, else the secondary's; trim is the primary's
\* top-level value, else the secondary's.  A lower source is never used when
\* a higher one supplies a value.
C16_IdentityPrecedence ==
    (last.fn = "get_car" /\ last.exc = "none") =>
        LET nested == IF Truthy(DictGet(last.auto_data, "vehicle"))
                      THEN DictGet(last.auto_data, "vehicle") ELSE EmptyDict
            second == [year |-> "ModelYear", make |-> "Make", model |-> "Model",
                       trim |-> "Trim"]
        IN  /\ ~IsNone(DictGet(nested, "year"))
                  => DictGet(last.ret, "year") = DictGet(nested, "year")
            /\ (IsNone(DictGet(nested, "year"))
                    /\ DictGet(last.nhtsa_data, "ModelYear") = PyStr("2019"))
                  => DictGet(last.ret, "year") = PyInt(2019)
            /\ \A f \in {"make", "model"} :
                  /\ Truthy(DictGet(nested, f))
                        => DictGet(last.ret, f) = DictGet(nested, f)
                  /\ (~Truthy(DictGet(nested, f)) /\ Truthy(DictGet(last.auto_data, f)))
                        => DictGet(last.ret, f) = DictGet(last.auto_data, f)
                  /\ (~Truthy(DictGet(nested, f)) /\ ~Truthy(DictGet(last.auto_data, f)))
                        => DictGet(last.ret, f) = DictGet(last.nhtsa_data, second[f])
            /\ Truthy(DictGet(last.auto_data, "trim"))
                  => DictGet(last.ret, "trim") = DictGet(last.auto_data, "trim")
            /\ ~Truthy(DictGet(last.auto_data, "trim"))
                  => DictGet(last.ret, "trim") = DictGet(last.nhtsa_data, "Trim")

\* the spec's example: the primary says 2020 and the secondary "2019", and
\* both name a make, a model and a trim; the profile holds the primary's
C16_Witness ==
    /\ last.fn = "get_car" /\ last.exc = "none"
    /\ Truthy(DictGet(last.auto_data, "vehicle"))
    /\ DictGet(DictGet(last.auto_data, "vehicle"), "year") = PyInt(2020)
    /\ DictGet(last.nhtsa_data, "ModelYear") = PyStr("2019")
    /\ DictGet(DictGet(last.auto_data, "vehicle"), "make") = PyStr("Honda")
    /\ DictGet(last.auto_data, "make") = PyStr("HONDA")
    /\ DictGet(last.nhtsa_data, "Make") = PyStr("ACURA")
    /\ DictGet(last.auto_data, "trim") = PyStr("EX")
    /\ DictGet(last.nhtsa_data, "Trim") = PyStr("Touring")
    /\ DictGet(last.ret, "year") = PyInt(2020)
    /\ DictGet(last.ret, "make") = PyStr("Honda")
    /\ DictGet(last.ret, "trim") = PyStr("EX")

\* the primary names no year, make or model; the profile holds the secondary's
C16_WitnessSecondary ==
    /\ last.fn = "get_car" /\ last.exc = "none"
    /\ ~Truthy(DictGet(last.auto_data, "vehicle"))
    /\ ~Truthy(DictGet(last.auto_data, "make"))
    /\ DictGet(last.ret, "year") = PyInt(2019)
    /\ DictGet(last.ret, "make") = PyStr("ACURA")
    /\ DictGet(last.ret, "trim") = PyStr("Touring")

-----------------------------------------------------------------------------
(* Claims about the total (SpecListing) *)

\* C17: for a fixed budget and otherwise identical listings, a listing priced
\* within the budget, at or above 70% of it, has a total strictly greater than
\* the same listing priced above the budget (budget 25000: the 23,000 listing
\* above the 31,000 one).
C17_WithinBudgetOutranksOverBudget ==
    (/\ last.fn = "score_listing"
     /\ ~IsNone(last.criteria.budget) /\ last.criteria.budget.v > 0
     /\ ~IsNone(DictGet(last.listing, "price"))
     /\ DictGet(last.listing, "price").v <= last.criteria.budget.v
     /\ 10 * DictGet(last.listing, "price").v >= 7 * last.criteria.budget.v)
    => \A p \in Prices :
          (~IsNone(p) /\ p.v > last.criteria.budget.v) =>
              total_score(last.ret)
                  > total_score(score_listing(
                        PyDict([last.listing.v EXCEPT !["price"] = p]), last.criteria))

\* the spec's scenario: budget 25000, the SUV at 23,000 scored, and its total
\* above that of the same SUV at 31,000
C17_Witness ==
    /\ last.fn = "score_listing"
    /\ last.criteria.budget = PyInt(25000)
    /\ last.criteria.body_style = PyStr("suv")
    /\ last.listing = WithPrice(PyInt(23000))
    /\ total_score(last.ret)
           > total_score(score_listing(WithPrice(PyInt(31000)), last.criteria))

\* C18: in get_car_profile_from_vin the trim/economy adapter and the
\* safety-rating adapter are invoked only when year, make and model have all
\* been resolved; when one of the three is unresolved, no upstream request
\* goes to the trim/economy provider or to the safety provider.
C18_OptionalAdaptersNeedIdentity ==
    (/\ last.fn = "get_car" /\ last.exc = "none"
     /\ \E f \in {"year", "make", "model"} : ~Truthy(DictGet(last.ret, f)))
    => \A i \in DOMAIN last.reqs :
          last.reqs[i] \notin {"carquery", "safety/modelyear", "safety/VehicleId"}

\* C19: when the primary supplies no year, the resolved year is the
\* secondary's ModelYear parsed to an integer, and None when that field is
\* missing, empty or not parsable as an integer; resolving the year never
\* raises.
C19_YearParseNeverRaises ==
    (/\ last.fn = "get_car"
     /\ Truthy(AUTO_DEV_API_KEY)
     /\ IsNone(DictGet(IF Truthy(DictGet(last.auto_data, "vehicle"))
                       THEN DictGet(last.auto_data, "vehicle") ELSE EmptyDict, "year")))
    => LET model_year == DictGet(last.nhtsa_data, "ModelYear") IN
       /\ last.exc = "none"
       /\ DictGet(last.ret, "year")
             = IF Truthy(model_year) /\ PyIntOf(model_year).exc = "none"
               THEN PyInt(PyIntOf(model_year).v)
               ELSE None

-----------------------------------------------------------------------------
(* Cached adapters, under SpecAdapters *)

CachedAdapters == {"auto_dev_vin_decode", "nhtsa_decode_vin", "carquery_get_trims"}

\* C20: for auto_dev_vin_decode, nhtsa_decode_vin and carquery_get_trims, a
\* call that finds under its key a result stored at most 24 hours before
\* returns that result and issues no upstream request, an empty record or an
\* empty list included; once the stored result is older than 24 hours the call
\* issues an upstream request again.
C20_StoredResultServedForADay ==
    last.fn \in CachedAdapters =>
        \A e \in last.pre :
            /\ (last.at - e[1] <= CACHE_TTL) =>
                   (last.exc = "none" /\ last.ret = e[2] /\ last.reqs = <<>>)
            /\ (last.at - e[1] > CACHE_TTL) => (last.reqs # <<>>)

\* an empty trim list stored earlier is returned a full day later without a request
C20_Witness ==
    /\ last.fn = "carquery_get_trims"
    /\ \E e \in last.pre : e[2] = EmptyList /\ last.at - e[1] = CACHE_TTL
    /\ last.ret = EmptyList
    /\ last.reqs = <<>>

\* an empty secondary record stored earlier is returned without a request
C20_WitnessEmptyRecord ==
    /\ last.fn = "nhtsa_decode_vin"
    /\ \E e \in last.pre : e[2] = EmptyDict /\ last.at - e[1] <= CACHE_TTL
    /\ last.ret = EmptyDict
    /\ last.reqs = <<>>

\* a primary decode stored more than a day before is requested again
C20_WitnessExpired ==
    /\ last.fn = "auto_dev_vin_decode"
    /\ \E e \in last.pre : last.at - e[1] > CACHE_TTL
    /\ last.reqs = <<"auto.dev/vin">>

-----------------------------------------------------------------------------
(* SpecCredential: the primary decode called over a cache that other callers
   of cache_set may have filled, with and without the credential *)

\* cache_set(cache_key, data) under the primary decode's key
StoreDecode ==
    /\ \E vin \in Vins, data \in {AutoFull, AutoNoYear} :
          /\ _CACHE' = cache_set(_CACHE, now, auto_dev_key(vin), data)
          /\ last' = [fn |-> "cache_set", key |-> auto_dev_key(vin), at |-> now,
                      ret |-> None]
    /\ UNCHANGED <<now, AUTO_DEV_API_KEY, stored, calls, SAMPLE_LISTINGS, threads>>

\* auto_dev_vin_decode(vin), the whole cache before the call kept in `before`
DecodeVin ==
    /\ calls < MaxCalls
    /\ \E vin \in Vins :
       \E resp \in Opts(auto_dev_vin_decode(_CACHE, now, AUTO_DEV_API_KEY, vin,
                                            TransportError), "auto.dev/vin", AutoResponses) :
          LET r == auto_dev_vin_decode(_CACHE, now, AUTO_DEV_API_KEY, vin, resp) IN
          /\ _CACHE' = r.cache
          /\ last' = Call("auto_dev_vin_decode", auto_dev_key(vin), r, <<resp>>)
                        @@ [before |-> _CACHE]
    /\ calls' = calls + 1
    /\ UNCHANGED <<now, AUTO_DEV_API_KEY, stored, SAMPLE_LISTINGS, threads>>

NextCredential == StoreDecode \/ DecodeVin \/ Tick

SpecCredential == Init /\ [][NextCredential]_vars

\* C21: without the provider credential auto_dev_vin_decode raises the
\* configuration error (ApiError "AUTO_DEV_API_KEY is not set") for every VIN,
\* one with a fresh cached decode included, issues no upstream request and
\* leaves the cache as it was, an expired entry under its key not evicted.
C21_FailFastWithoutCredential ==
    (last.fn = "auto_dev_vin_decode" /\ ~Truthy(AUTO_DEV_API_KEY)) =>
        /\ last.exc = "ApiError"
        /\ last.reqs = <<>>
        /\ _CACHE = last.before

\* the call was refused although a decode stored less than a day before was there
C21_Witness ==
    /\ last.fn = "auto_dev_vin_decode"
    /\ ~Truthy(AUTO_DEV_API_KEY)
    /\ \E e \in last.pre : last.at - e[1] <= CACHE_TTL
    /\ last.exc = "ApiError"

\* the call was refused and an expired decode under its key stayed in the cache
C21_WitnessExpiredKept ==
    /\ last.fn = "auto_dev_vin_decode"
    /\ ~Truthy(AUTO_DEV_API_KEY)
    /\ \E e \in last.pre : last.at - e[1] > CACHE_TTL
    /\ last.key \in DOMAIN _CACHE

-----------------------------------------------------------------------------
(* Frame of the cache operations, under SpecCache *)

\* C22: an entry leaves the cache only when cache_get reads its key after its
\* expiry; an entry appears or changes only under the key cache_set was called
\* with, and then carries the current time; so cache_get(k) touches no other
\* key than k and a cache_get on an unexpired entry changes nothing.
C22_OnlyLazyEviction ==
    [][/\ \A k \in DOMAIN _CACHE \ DOMAIN _CACHE' :
             /\ last'.fn = "cache_get"
             /\ last'.key = k
             /\ now - _CACHE[k][1] > CACHE_TTL
       /\ \A k \in DOMAIN _CACHE' :
             (k \notin DOMAIN _CACHE \/ _CACHE'[k] # _CACHE[k]) =>
                /\ last'.fn = "cache_set"
                /\ last'.key = k
                /\ _CACHE'[k][1] = now
       /\ (last'.fn = "cache_get" /\ last' # last) =>
             \A k \in DOMAIN _CACHE :
                (k # last'.key \/ now - _CACHE[k][1] <= CACHE_TTL) =>
                   (k \in DOMAIN _CACHE' /\ _CACHE'[k] = _CACHE[k])]_vars

\* a read has evicted its own expired entry while the other key's expired
\* entry stayed
C22_Witness ==
    /\ last.fn = "cache_get"
    /\ last.key \in DOMAIN stored
    /\ last.key \notin DOMAIN _CACHE
    /\ \E k \in DOMAIN _CACHE : k # last.key /\ last.at - _CACHE[k][1] > CACHE_TTL

-----------------------------------------------------------------------------
(* The safety block of the profile (SpecIdentity) *)

\* C23: in every profile get_car_profile_from_vin returns, the safety stars
\* are None or an integer from 1 to 5, and the safety source is "nhtsa"
\* exactly when the stars are not None.
C23_StarsInRangeAndSourced ==
    (last.fn = "get_car" /\ last.exc = "none") =>
        LET safety == DictGet(last.ret, "safety")
            stars == DictGet(safety, "nhtsa_stars")
            source == DictGet(safety, "source")
        IN  /\ IsNone(stars) \/ (stars.t = "int" /\ stars.v >= 1 /\ stars.v <= 5)
            /\ (source = PyStr("nhtsa")) <=> ~IsNone(stars)

-----------------------------------------------------------------------------
(* SpecThreads: auto_dev_vin_decode run by the server's worker threads, which
   share _CACHE without a lock.  A step is one access to the shared cache or
   to the upstream; the statements between two accesses touch only locals. *)

Workers == {1, 2}

\* a thread with no call in progress
Waiting == [pc |-> "waiting", vin |-> "", t |-> 0, data |-> None, raced |-> {}]

InitThreads ==
    /\ _CACHE = NoEntries
    /\ now = 0
    /\ AUTO_DEV_API_KEY \in {None, PyStr("test-key")}
    /\ stored = NoEntries
    /\ last = Idle
    /\ calls = 0
    /\ SAMPLE_LISTINGS = <<>>
    /\ threads = [i \in Workers |-> Waiting]

\* lines 52-56, 26: the credential test, then cache_get takes the time
Begin(i) ==
    /\ calls < MaxCalls
    /\ threads[i].pc = "waiting"
    /\ \E vin \in Vins :
          threads' = [threads EXCEPT ![i] =
                        IF ~Truthy(AUTO_DEV_API_KEY)
                        THEN Waiting
                        ELSE [Waiting EXCEPT !.pc = "get", !.vin = vin, !.t = now]]
    /\ calls' = calls + 1
    /\ UNCHANGED <<_CACHE, now, AUTO_DEV_API_KEY, stored, last, SAMPLE_LISTINGS>>

\* lines 27-35, 57-58: item = _CACHE.get(key) and the tests on it
GetItem(i) ==
    /\ threads[i].pc = "get"
    /\ LET key == auto_dev_key(threads[i].vin) IN
       threads' = [threads EXCEPT ![i] =
                     IF key \notin DOMAIN _CACHE
                     THEN [@ EXCEPT !.pc = "request"]
                     ELSE IF threads[i].t - _CACHE[key][1] > CACHE_TTL
                     THEN [@ EXCEPT !.pc = "pop"]
                     ELSE IF ~IsNone(_CACHE[key][2])
                     THEN Waiting
                     ELSE [@ EXCEPT !.pc = "request"]]
    /\ UNCHANGED <<_CACHE, now, AUTO_DEV_API_KEY, stored, last, calls, SAMPLE_LISTINGS>>

\* line 33: _CACHE.pop(key, None)
PopItem(i) ==
    /\ threads[i].pc = "pop"
    /\ LET key == auto_dev_key(threads[i].vin) IN
       _CACHE' = [k \in DOMAIN _CACHE \ {key} |-> _CACHE[k]]
    /\ threads' = [threads EXCEPT ![i].pc = "request"]
    /\ UNCHANGED <<now, AUTO_DEV_API_KEY, stored, last, calls, SAMPLE_LISTINGS>>

\* lines 60-67: the upstream request; `last` is the request just issued and
\* `ok` the times of the requests for the VIN that were answered with a body
Request(i) ==
    /\ threads[i].pc = "request"
    /\ \E resp \in AutoResponses :
          /\ threads' = [threads EXCEPT ![i] =
                           IF Failed(resp) THEN Waiting
                           ELSE [@ EXCEPT !.pc = "store", !.data = resp.body]]
          /\ last' = [fn |-> "requests.get", vin |-> threads[i].vin, at |-> now,
                      prev |-> IF last.fn = "requests.get" THEN last.ok ELSE {},
                      ok |-> (IF last.fn = "requests.get" THEN last.ok ELSE {})
                                \cup (IF Failed(resp) THEN {} ELSE {now})]
    /\ UNCHANGED <<_CACHE, now, AUTO_DEV_API_KEY, stored, calls, SAMPLE_LISTINGS>>

\* lines 69-70: cache_set(cache_key, data); a thread that has read the expired
\* entry of the key and not yet popped it notes the value stored meanwhile
Store(i) ==
    /\ threads[i].pc = "store"
    /\ _CACHE' = cache_set(_CACHE, now, auto_dev_key(threads[i].vin), threads[i].data)
    /\ threads' = [j \in Workers |->
                     IF j = i THEN Waiting
                     ELSE IF threads[j].pc = "pop" /\ threads[j].vin = threads[i].vin
                     THEN [threads[j] EXCEPT !.raced = {<<now, threads[i].data>>}]
                     ELSE threads[j]]
    /\ UNCHANGED <<now, AUTO_DEV_API_KEY, stored, last, calls, SAMPLE_LISTINGS>>

NextThreads ==
    \/ \E i \in Workers : Begin(i)
    \/ \E i \in Workers : GetItem(i)
    \/ \E i \in Workers : PopItem(i)
    \/ \E i \in Workers : Request(i)
    \/ \E i \in Workers : Store(i)
    \/ Tick

SpecThreads == InitThreads /\ [][NextThreads]_vars

\* C24: a value stored by cache_set(k, v) while a concurrent cache_get(k) had
\* read the previous, expired entry of k is still in the cache, as v, once
\* that cache_get has completed.
C24_FreshValueSurvivesConcurrentRead ==
    \A i \in Workers :
        (threads[i].pc = "request" /\ threads[i].raced # {}) =>
            LET key == auto_dev_key(threads[i].vin) IN
            /\ key \in DOMAIN _CACHE
            /\ _CACHE[key] \in threads[i].raced

\* C25: an upstream VIN-decode request for a VIN is never issued within 24
\* hours of an earlier answered request for that VIN, concurrent calls that
\* all started before the first result was stored included.
C25_OneDecodeRequestPerWindow ==
    last.fn = "requests.get" =>
        \A p \in last.prev : last.at - p > CACHE_TTL

-----------------------------------------------------------------------------
(* Failed decodes and the cache, under SpecAdapters *)

VinDecoders == {"auto_dev_vin_decode", "nhtsa_decode_vin"}

\* requests.get raising, or raise_for_status() on a 4xx/5xx answer
UpstreamFailures == {"ConnectionError", "HTTPError"}

\* C26 as stated: a call of auto_dev_vin_decode or nhtsa_decode_vin that
\* raises because the upstream request failed leaves the cache exactly as it
\* was before the call.
C26_FailedDecodeLeavesCacheUntouched ==
    [][(/\ calls' = calls + 1
        /\ last'.fn \in VinDecoders
        /\ last'.exc \in UpstreamFailures)
       => _CACHE' = _CACHE]_vars

\* C26 amended: such a call stores nothing; the cache it leaves is the cache
\* before the call less the entry of the call's own key, which was there only
\* if it had expired (the lookup evicted it); and a call of the same adapter
\* with the same arguments right after the failure issues an upstream
\* request again.
C26_FailedDecodeStoresNothing ==
    [][/\ (/\ calls' = calls + 1
           /\ last'.fn \in VinDecoders
           /\ last'.exc \in UpstreamFailures)
          => /\ _CACHE' = [k \in DOMAIN _CACHE \ {last'.key} |-> _CACHE[k]]
             /\ last'.key \in DOMAIN _CACHE =>
                   now - _CACHE[last'.key][1] > CACHE_TTL
       /\ (/\ calls' = calls + 1
           /\ last.fn \in VinDecoders
           /\ last.exc \in UpstreamFailures
           /\ last'.fn = last.fn
           /\ last'.key = last.key)
          => last'.reqs # <<>>]_vars

\* the secondary decode failed over an expired entry, which is gone
C26_Witness ==
    /\ last.fn = "nhtsa_decode_vin"
    /\ last.exc \in UpstreamFailures
    /\ \E e \in last.pre : last.at - e[1] > CACHE_TTL
    /\ last.key \notin DOMAIN _CACHE

\* the primary decode failed with nothing under its key while another
\* adapter's entry stayed in the cache
C26_WitnessOtherEntriesKept ==
    /\ last.fn = "auto_dev_vin_decode"
    /\ last.exc = "HTTPError"
    /\ last.pre = {}
    /\ _CACHE # NoEntries

-----------------------------------------------------------------------------
(* Order of the adapter calls (SpecOrder) *)

\* the place of each upstream in get_car_profile_from_vin
UpstreamRank ==
    [u \in {"auto.dev/vin", "vpic", "carquery", "safety/modelyear", "safety/VehicleId"} |->
        CASE u = "auto.dev/vin" -> 1
          [] u = "vpic" -> 2
          [] u = "carquery" -> 3
          [] u = "safety/modelyear" -> 4
          [] u = "safety/VehicleId" -> 5]

\* VIN profile requests one after another, within one cache lifetime
NextOrder == GetCar

SpecOrder == Init /\ [][NextOrder]_vars

\* C27: the upstream requests of one get_car_profile_from_vin are issued in
\* the order primary decode, secondary decode, trim/economy, safety; when the
\* primary decode raises, its error is the error of the call, no later adapter
\* is called and no request goes to the secondary decode, the trim/economy or
\* the safety upstream.
C27_PrimaryFirstAndFatal ==
    last.fn = "get_car" =>
        /\ \A i, j \in DOMAIN last.reqs :
              i < j => UpstreamRank[last.reqs[i]] < UpstreamRank[last.reqs[j]]
        /\ last.steps.primary # "none" =>
              /\ last.exc = last.steps.primary
              /\ last.steps.secondary = NotCalled
              /\ last.steps.economy = NotCalled
              /\ last.steps.safety = NotCalled
              /\ \A i \in DOMAIN last.reqs : last.reqs[i] = "auto.dev/vin"

\* the primary upstream answered 500: one request, the error handed on
C27_Witness ==
    /\ last.fn = "get_car"
    /\ last.steps.primary = "HTTPError"
    /\ last.exc = "HTTPError"
    /\ last.reqs = <<"auto.dev/vin">>

\* a call that went through all five requests, in order
C27_WitnessAllFive ==
    /\ last.fn = "get_car"
    /\ last.reqs = <<"auto.dev/vin", "vpic", "carquery", "safety/modelyear",
                     "safety/VehicleId">>

-----------------------------------------------------------------------------
(* SpecAnonymous: search over raw listing records some of which carry neither
   an id nor a vin *)

RawNoIdCivic ==
    PyDict([vehicle |-> PyDict([year |-> PyInt(2020), make |-> PyStr("Honda"),
                                model |-> PyStr("Civic"), bodyStyle |-> PyStr("Sedan"),
                                fuel |-> PyStr("Gasoline")]),
            retailListing |-> PyDict([price |-> PyInt(17000), miles |-> PyInt(50000)])])
RawNoIdAccord ==
    PyDict([vehicle |-> PyDict([year |-> PyInt(2019), make |-> PyStr("Honda"),
                                model |-> PyStr("Accord"), bodyStyle |-> PyStr("Sedan"),
                                fuel |-> PyStr("Gasoline")]),
            retailListing |-> PyDict([price |-> PyInt(19000), miles |-> PyInt(70000)])])
AnonymousRaws == {RawNoIdCivic, RawNoIdAccord, RawCamry}

AnonymousResponses ==
    {Http(200, PyDict([data |-> PyList(raw)])) : raw \in SeqsUpTo(AnonymousRaws, MaxFetched)}

SearchAnonymous ==
    /\ last = Idle
    /\ \E criteria \in CriteriaSet, top_k \in 1..MaxTopK,
          resp \in (IF Truthy(AUTO_DEV_API_KEY) THEN AnonymousResponses ELSE {NoRequest}) :
          LET r == search(AUTO_DEV_API_KEY, SAMPLE_LISTINGS, criteria, top_k, resp) IN
          last' = [fn |-> "search", criteria |-> criteria, top_k |-> top_k,
                   resp |-> resp, unique |-> r.unique, ret |-> r.ret]
    /\ UNCHANGED <<_CACHE, now, AUTO_DEV_API_KEY, stored, calls, SAMPLE_LISTINGS, threads>>

NextAnonymous == SearchAnonymous

SpecAnonymous == InitSearch /\ [][NextAnonymous]_vars

\* the places, in the fetched data, of the records with neither id nor vin
AnonymousPlaces(raw) ==
    {i \in DOMAIN raw : ~Truthy(DictGet(raw[i], "id")) /\ ~Truthy(DictGet(raw[i], "vin"))}

\* C28: raw listing records that lack both id and vin (and have year, make
\* and model) are distinct candidates: after the mapping and the
\* deduplication step of search each of them is in the candidate pool.
C28_AnonymousRecordsStayDistinct ==
    (last.fn = "search" /\ Truthy(AUTO_DEV_API_KEY)) =>
        LET raw == last.resp.body.v["data"].v IN
        \A i \in AnonymousPlaces(raw) :
            \E u \in DOMAIN last.unique : last.unique[u].idx = i

-----------------------------------------------------------------------------
(* The result as the best of the filtered pool (SpecSearch) *)

\* the places, among the deduplicated candidates, of those that pass the filters
passing_of_last ==
    {u \in DOMAIN last.unique : _passes_filters(last.unique[u].item, last.criteria)}

\* C29: search returns the best top_k of the filtered pool: every returned
\* listing passes _passes_filters for the criteria, as many are returned as
\* pass, up to top_k, and every deduplicated candidate that passes but is not
\* returned has a total no greater than the total of any returned listing.
C29_BestTopKOfFilteredPool ==
    last.fn = "search" =>
        LET passing == passing_of_last
            returned == {last.ret[j].pos : j \in DOMAIN last.ret}
            least == IF last.ret = <<>> THEN 0 ELSE total_score(last.ret[Len(last.ret)])
        IN  /\ \A j \in DOMAIN last.ret :
                  /\ last.ret[j].pos \in passing
                  /\ last.ret[j].listing = last.unique[last.ret[j].pos].item
                  /\ _passes_filters(last.ret[j].listing, last.criteria)
                  /\ total_score(last.ret[j]) >= least
            /\ Len(last.ret) = Min(last.top_k, Cardinality(passing))
            /\ \A u \in passing \ returned :
                  \A j \in DOMAIN last.ret :
                     total_score(score_listing(last.unique[u].item, last.criteria))
                        <= total_score(last.ret[j])

\* a passing candidate stayed out with a smaller total than a returned listing
\* that stood behind it in the pool, and a candidate failed the filters
C29_Witness ==
    /\ last.fn = "search"
    /\ \E u \in passing_of_last :
          /\ \A j \in DOMAIN last.ret : last.ret[j].pos # u
          /\ \E j \in DOMAIN last.ret :
                /\ last.ret[j].pos > u
                /\ total_score(score_listing(last.unique[u].item, last.criteria))
                      < total_score(last.ret[j])
    /\ \E u \in DOMAIN last.unique : u \notin passing_of_last

-----------------------------------------------------------------------------
(* The distance sub-score (SpecScore) *)

\* C30: for a fixed maxDistance (100 when unset) the distance sub-score never
\* rises with the distance and is never below the floor 0.05 for a known
\* distance: for known distances a <= b,
\* _distance_score(a, m) >= _distance_score(b, m) >= 0.05.
C30_DistanceScoreMonotoneAboveFloor ==
    (/\ last.fn = "_distance_score"
     /\ ~IsNone(last.a) /\ ~IsNone(last.b)
     /\ last.a.v <= last.b.v)
    => /\ last.score_a >= last.score_b
       /\ last.score_b >= (5 * SCALE) \div 100

====
